---------------------------- MODULE Spec2Model ----------------------------
(***************************************************************************)
(* A model of yubikey-manager's protocol core (yubikit): the TLV codec,    *)
(* the APDU transport (chained sends, continued receives), the PIV         *)
(* session's PIN/PUK handling, reset, management-key authentication and    *)
(* replacement, key-capability checks, slot-to-object table and signing,   *)
(* the Management session's version gates, configuration encoding, mode    *)
(* setting (also through the smart-card backend) and device-info parsing,  *)
(* the OATH session's password lock, credential ids, credential data, put  *)
(* and rename, code calculation and the comparison of Credentials, the     *)
(* device references' open_connection, and the command line's              *)
(* retrying_connect.                                                       *)
(*                                                                         *)
(* Conventions.  A byte string is a sequence of integers in 0..255.  A     *)
(* Python Optional is a sequence of length at most one: None is <<>> and   *)
(* a present value v is <<v>>.  An exception is named by the string of its *)
(* class; "" means the call returned normally.  A text string is a         *)
(* sequence of one-character strings.                                      *)
(*                                                                         *)
(* Each component has its own specification (SpecPin, SpecRetries, ...):   *)
(* a session object is used by one caller at a time, and the components    *)
(* share no state.  The variables of the other components keep their       *)
(* initial value under a specification.                                    *)
(***************************************************************************)
EXTENDS Integers, Sequences, FiniteSets, TLC

VARIABLES
    \* ---- PivSession (PIN/PUK part)
    version,               \* PivSession._version
    _current_pin_retries,  \* PivSession._current_pin_retries
    _max_pin_retries,      \* PivSession._max_pin_retries
    pivCall,               \* the last PivSession call: arguments, APDUs sent, outcome
    \* ---- _retries_from_sw as a function
    rfIn,                  \* [version, sw]: the arguments
    rfOut,                 \* [done, val]: the value returned
    \* ---- Tlv
    tlvMode,               \* "build": Tlv(tag, value) to be called; "built": it
                           \* returned; "raw": bytes received from a device
    tlvTag,                \* the tag Tlv(tag, value) is called with
    tlvValue,              \* the value Tlv(tag, value) is called with
    tlvData,               \* the bytes parsed: those built, or those received
    tlvRes,                \* the result of the last Tlv operation
    \* ---- PivSession.authenticate
    authPc,                \* where the call is: "ready", "witness_requested",
                           \* "reply_sent" or "done"
    authKey,               \* the management_key argument
    authSent,              \* the APDUs sent so far by the call, in order
    authChallenge,         \* the bytes os.urandom(8) returned
    authRecv,              \* the payloads send_apdu returned so far, in order
    authRaised,            \* the exception the call ended with ("" for none)
    \* ---- ManagementSession
    mgmtVersion,           \* ManagementSession.version (the backend's version)
    mgmtBackend,           \* the backend primitives the last call invoked, in order
    mgmtCall,              \* the last ManagementSession call: arguments and outcome
    \* ---- PivSession.generate_key / put_key
    keyCall,               \* the last key call: arguments, APDUs sent, outcome
    \* ---- OathSession.calculate_all
    oathPc,                \* where the call is: "ready", "batch_sent",
                           \* "calculate_sent" or "done"
    oathTimestamp,         \* the local timestamp of calculate_all
    oathSent,              \* the APDUs sent so far by the call, in order
    oathRecv,              \* the payloads send_apdu returned so far, in order
    oathData,              \* the local data: the Tlv objects not yet consumed
    oathEntries,           \* the local entries: (credential, code) in insertion order
    oathPending,           \* the credential calculate_code is running for, if any
    oathRaised,            \* the exception the call ended with ("" for none)
    \* ---- OathSession: the password lock
    _challenge,            \* OathSession._challenge (None when not locked)
    \* the last OathSession call: arguments, APDUs sent, answer, outcome
    lockCall,
    \* ---- SmartCardProtocol.send_apdu
    _ins_send_remaining,   \* the GET-RESPONSE instruction the protocol was built with
    protoPc,               \* where the call is: "ready", "chaining" (a chained
                           \* chunk is out), "receiving" (the final chunk or a
                           \* GET-RESPONSE is out) or "done"
    protoCall,             \* the arguments of the call
    protoData,             \* the command data not yet sent
    protoWire,             \* the frames handed to the connection so far, in order
    protoRecv,             \* the (payload, status word) pairs received so far
    protoBuf,              \* the response payload collected so far
    \* how the call ended: the exception and its status word, or the payload
    protoOut,
    \* ---- PivSession.reset
    resetPc,               \* where the call is: "idle", "get_pin_attempts",
                           \* "block_pin", "block_puk", "reset" or "done"
    resetCounter,          \* the local counter of reset
    resetSent,             \* the APDUs sent so far by the call, in order
    resetRecv,             \* the (payload, status word) pairs received so far
    resetRaised,           \* the exception the call ended with ("" for none)
    \* ---- CredentialData.get_id
    \* the CredentialData object get_id is called on
    credData,
    \* the id the last get_id call returned (None before the first call)
    credId,
    \* ---- OathSession.calculate_code called by the user
    \* where the call is: "idle", "sent" (inside send_apdu) or "done"
    calcPc,
    \* the credential argument
    calcCredential,
    \* the timestamp argument (None or Some(t))
    calcArg,
    \* the local timestamp after int(timestamp or time())
    calcTimestamp,
    \* the APDUs sent by the call
    calcSent,
    \* the response payloads received by the call
    calcRecv,
    \* the Code returned (None when nothing was returned)
    calcCode,
    \* the exception the call ended with ("" for none)
    calcRaised,
    \* ---- PivSession.set_management_key
    \* the last call: its key, the APDUs it sent and the exception it raised
    mgmKeyCall,
    \* ---- the PIN/PUK arguments of the last PivSession call
    \* the encoded PIN/PUK values the call was given, in order
    pinArgs,
    \* ---- OathSession.put_credential
    \* the CredentialData the caller holds (None before one is made)
    putData,
    \* the last call: the APDUs it sent and its outcome
    putCall,
    \* ---- OathSession.rename_credential
    \* OathSession.info.version
    renameVersion,
    \* the last call: its arguments, the APDUs it sent and its outcome
    renameCall,
    \* ---- DeviceInfo.parse and the OTP backend's read_config
    \* the last read: the response of the device, the default version, the
    \* exception raised and the DeviceInfo returned
    infoCall,
    \* ---- OBJECT_ID.from_slot
    \* the call of from_slot before the last one
    slotPrev,
    \* the last call of from_slot: the slot, the exception raised and the
    \* object id returned
    slotCall,
    \* ---- Credential: equality, hash and order
    \* the last comparison of two Credentials a and b: a == b,
    \* hash(a) == hash(b) and a < b
    orderCall,
    \* ---- Tlv.parse_list and Tlv.parse_dict on concatenated Tlvs
    \* the last call: the Tlv objects whose bytes were concatenated, the
    \* exception raised, and the list or the dict returned
    listCall,
    \* ---- _ManagementSmartCardBackend.set_mode
    \* the version of the backend
    scVersion,
    \* the data of the set_mode call under way
    scData,
    \* where the call is: "idle", the round-trip to make next, "returned"
    \* or "raised"
    scPc,
    \* what the call did on its protocol and connection so far, in order
    scOps,
    \* the application selected on the card: "MGMT", "OTP" or "" for none
    scSelected,
    \* the exception set_mode raised
    scRaised,
    \* ---- PivSession.sign
    \* the last call of sign: its arguments, the block made of the message,
    \* the APDUs sent and the exception raised
    signCall,
    \* ---- ykman.cli retrying_connect
    \* where the call is: "idle", "connect" (in connect_to_device), "sleep"
    \* (in time.sleep) or "done"
    retryPc,
    \* the local variable attempts
    retryAttempts,
    \* the argument attempts of the call
    retryArg,
    \* what each call of connect_to_device did: returned a result or raised
    retryCalls,
    \* how retrying_connect ended: the result returned or the exception raised
    retryOut,
    \* ---- YubiKeyDevice.open_connection
    \* the last call of open_connection: the device reference, the connection
    \* type asked for, the exception raised and the connection opened
    devCall

pinVars == <<version, _current_pin_retries, _max_pin_retries, pivCall>>
rfVars == <<rfIn, rfOut>>
tlvVars == <<tlvMode, tlvTag, tlvValue, tlvData, tlvRes>>
authVars == <<authPc, authKey, authSent, authRecv, authChallenge, authRaised>>
mgmtVars == <<mgmtVersion, mgmtBackend, mgmtCall>>
keyVars == <<keyCall>>
oathVars == <<oathPc, oathTimestamp, oathSent, oathRecv, oathData, oathEntries, oathPending, oathRaised>>
lockVars == <<_challenge, lockCall>>
protoVars == <<_ins_send_remaining, protoPc, protoCall, protoData, protoWire, protoRecv, protoBuf, protoOut>>
resetVars == <<resetPc, resetCounter, resetSent, resetRecv, resetRaised>>
credVars == <<credData, credId>>
calcVars == <<calcPc, calcCredential, calcArg, calcTimestamp, calcSent, calcRecv, calcCode, calcRaised>>
mgmKeyVars == <<mgmKeyCall>>
pinArgVars == <<pinArgs>>
putVars == <<putData, putCall>>
renameVars == <<renameVersion, renameCall>>
infoVars == <<infoCall>>
slotVars == <<slotPrev, slotCall>>
orderVars == <<orderCall>>
listVars == <<listCall>>
scVars == <<scVersion, scData, scPc, scOps, scSelected, scRaised>>
signVars == <<signCall>>
retryVars == <<retryPc, retryAttempts, retryArg, retryCalls, retryOut>>
devVars == <<devCall>>
vars == <<pinVars, rfVars, tlvVars, authVars, mgmtVars, keyVars, oathVars, lockVars, protoVars, resetVars, credVars, calcVars, mgmKeyVars, pinArgVars, putVars, renameVars, infoVars, slotVars, orderVars, listVars, scVars, signVars, retryVars, devVars>>

\* What each specification leaves alone.
notPin == <<rfVars, tlvVars, authVars, mgmtVars, keyVars, oathVars, lockVars, protoVars, resetVars, credVars, calcVars, mgmKeyVars, pinArgVars, putVars, renameVars, infoVars, slotVars, orderVars, listVars, scVars, signVars, retryVars, devVars>>
notRf == <<pinVars, tlvVars, authVars, mgmtVars, keyVars, oathVars, lockVars, protoVars, resetVars, credVars, calcVars, mgmKeyVars, pinArgVars, putVars, renameVars, infoVars, slotVars, orderVars, listVars, scVars, signVars, retryVars, devVars>>
notTlv == <<pinVars, rfVars, authVars, mgmtVars, keyVars, oathVars, lockVars, protoVars, resetVars, credVars, calcVars, mgmKeyVars, pinArgVars, putVars, renameVars, infoVars, slotVars, orderVars, listVars, scVars, signVars, retryVars, devVars>>
notAuth == <<pinVars, rfVars, tlvVars, mgmtVars, keyVars, oathVars, lockVars, protoVars, resetVars, credVars, calcVars, mgmKeyVars, pinArgVars, putVars, renameVars, infoVars, slotVars, orderVars, listVars, scVars, signVars, retryVars, devVars>>
notMgmt == <<pinVars, rfVars, tlvVars, authVars, keyVars, oathVars, lockVars, protoVars, resetVars, credVars, calcVars, mgmKeyVars, pinArgVars, putVars, renameVars, infoVars, slotVars, orderVars, listVars, scVars, signVars, retryVars, devVars>>
notKey == <<pinVars, rfVars, tlvVars, authVars, mgmtVars, oathVars, lockVars, protoVars, resetVars, credVars, calcVars, mgmKeyVars, pinArgVars, putVars, renameVars, infoVars, slotVars, orderVars, listVars, scVars, signVars, retryVars, devVars>>
notOath == <<pinVars, rfVars, tlvVars, authVars, mgmtVars, keyVars, lockVars, protoVars, resetVars, credVars, calcVars, mgmKeyVars, pinArgVars, putVars, renameVars, infoVars, slotVars, orderVars, listVars, scVars, signVars, retryVars, devVars>>
notLock == <<pinVars, rfVars, tlvVars, authVars, mgmtVars, keyVars, oathVars, protoVars, resetVars, credVars, calcVars, mgmKeyVars, pinArgVars, putVars, renameVars, infoVars, slotVars, orderVars, listVars, scVars, signVars, retryVars, devVars>>
notProto == <<pinVars, rfVars, tlvVars, authVars, mgmtVars, keyVars, oathVars, lockVars, resetVars, credVars, calcVars, mgmKeyVars, pinArgVars, putVars, renameVars, infoVars, slotVars, orderVars, listVars, scVars, signVars, retryVars, devVars>>
\* reset works on the retry cache of the session, so it leaves pinVars out.
notReset == <<rfVars, tlvVars, authVars, mgmtVars, keyVars, oathVars, lockVars, protoVars, credVars, calcVars, mgmKeyVars, pinArgVars, putVars, renameVars, infoVars, slotVars, orderVars, listVars, scVars, signVars, retryVars, devVars>>
notCred == <<pinVars, rfVars, tlvVars, authVars, mgmtVars, keyVars, oathVars, lockVars, protoVars, resetVars, calcVars, mgmKeyVars, pinArgVars, putVars, renameVars, infoVars, slotVars, orderVars, listVars, scVars, signVars, retryVars, devVars>>
notCalc == <<pinVars, rfVars, tlvVars, authVars, mgmtVars, keyVars, oathVars, lockVars, protoVars, resetVars, credVars, mgmKeyVars, pinArgVars, putVars, renameVars, infoVars, slotVars, orderVars, listVars, scVars, signVars, retryVars, devVars>>
notMgmKey == <<pinVars, rfVars, tlvVars, authVars, mgmtVars, keyVars, oathVars, lockVars, protoVars, resetVars, credVars, calcVars, pinArgVars, putVars, renameVars, infoVars, slotVars, orderVars, listVars, scVars, signVars, retryVars, devVars>>
\* the calls on record work on the session's PIN state, so this leaves pinVars out
notPinArgs == <<rfVars, tlvVars, authVars, mgmtVars, keyVars, oathVars, lockVars, protoVars, resetVars, credVars, calcVars, mgmKeyVars, putVars, renameVars, infoVars, slotVars, orderVars, listVars, scVars, signVars, retryVars, devVars>>
notPut == <<pinVars, rfVars, tlvVars, authVars, mgmtVars, keyVars, oathVars, lockVars, protoVars, resetVars, credVars, calcVars, mgmKeyVars, pinArgVars, renameVars, infoVars, slotVars, orderVars, listVars, scVars, signVars, retryVars, devVars>>
notRename == <<pinVars, rfVars, tlvVars, authVars, mgmtVars, keyVars, oathVars, lockVars, protoVars, resetVars, credVars, calcVars, mgmKeyVars, pinArgVars, putVars, infoVars, slotVars, orderVars, listVars, scVars, signVars, retryVars, devVars>>
notInfo == <<pinVars, rfVars, tlvVars, authVars, mgmtVars, keyVars, oathVars, lockVars, protoVars, resetVars, credVars, calcVars, mgmKeyVars, pinArgVars, putVars, renameVars, slotVars, orderVars, listVars, scVars, signVars, retryVars, devVars>>
notSlot == <<pinVars, rfVars, tlvVars, authVars, mgmtVars, keyVars, oathVars, lockVars, protoVars, resetVars, credVars, calcVars, mgmKeyVars, pinArgVars, putVars, renameVars, infoVars, orderVars, listVars, scVars, signVars, retryVars, devVars>>
notOrder == <<pinVars, rfVars, tlvVars, authVars, mgmtVars, keyVars, oathVars, lockVars, protoVars, resetVars, credVars, calcVars, mgmKeyVars, pinArgVars, putVars, renameVars, infoVars, slotVars, listVars, scVars, signVars, retryVars, devVars>>
notList == <<pinVars, rfVars, tlvVars, authVars, mgmtVars, keyVars, oathVars, lockVars, protoVars, resetVars, credVars, calcVars, mgmKeyVars, pinArgVars, putVars, renameVars, infoVars, slotVars, orderVars, scVars, signVars, retryVars, devVars>>
notSc == <<pinVars, rfVars, tlvVars, authVars, mgmtVars, keyVars, oathVars, lockVars, protoVars, resetVars, credVars, calcVars, mgmKeyVars, pinArgVars, putVars, renameVars, infoVars, slotVars, orderVars, listVars, signVars, retryVars, devVars>>
notSign == <<pinVars, rfVars, tlvVars, authVars, mgmtVars, keyVars, oathVars, lockVars, protoVars, resetVars, credVars, calcVars, mgmKeyVars, pinArgVars, putVars, renameVars, infoVars, slotVars, orderVars, listVars, scVars, retryVars, devVars>>
notRetry == <<pinVars, rfVars, tlvVars, authVars, mgmtVars, keyVars, oathVars, lockVars, protoVars, resetVars, credVars, calcVars, mgmKeyVars, pinArgVars, putVars, renameVars, infoVars, slotVars, orderVars, listVars, scVars, signVars, devVars>>
notDev == <<pinVars, rfVars, tlvVars, authVars, mgmtVars, keyVars, oathVars, lockVars, protoVars, resetVars, credVars, calcVars, mgmKeyVars, pinArgVars, putVars, renameVars, infoVars, slotVars, orderVars, listVars, scVars, signVars, retryVars>>

(***************************************************************************)
(* Python values                                                           *)
(***************************************************************************)
None == <<>>
Some(v) == <<v>>

\* The values of an enum class, which is held as the record of its members.
Members(enum) == {enum[name] : name \in DOMAIN enum}

\* Python's comparison of two tuples of the same length: lexicographic.
RECURSIVE TupleLt(_, _)
TupleLt(a, b) ==
    IF Len(a) = 0 \/ Len(b) = 0 THEN Len(a) < Len(b)
    ELSE IF Head(a) # Head(b) THEN Head(a) < Head(b)
    ELSE TupleLt(Tail(a), Tail(b))

TupleGe(a, b) == ~TupleLt(a, b)

\* bytes.ljust(width, fill): pad at the end up to width, never cut.
RECURSIVE ljust(_, _, _)
ljust(s, width, fill) ==
    IF Len(s) >= width THEN s ELSE ljust(Append(s, fill), width, fill)

\* bytes.rjust(width, fill): pad at the front up to width, never cut.
RECURSIVE rjust(_, _, _)
rjust(s, width, fill) ==
    IF Len(s) >= width THEN s ELSE rjust(<<fill>> \o s, width, fill)

(***************************************************************************)
(* TLV codec (yubikit.core)                                                *)
(***************************************************************************)
\* data[:n] and data[n:] for n >= 0: a Python slice never raises, it is cut
\* to what the buffer holds.
SliceTo(data, n) == IF n >= Len(data) THEN data ELSE SubSeq(data, 1, n)
SliceFrom(data, n) ==
    IF n >= Len(data) THEN <<>> ELSE SubSeq(data, n + 1, Len(data))

\* data[i:] for any integer i: a negative i counts from the end.
PySliceFrom(data, i) ==
    IF i >= 0 THEN SliceFrom(data, i)
    ELSE IF Len(data) + i <= 0 THEN data
    ELSE SliceFrom(data, Len(data) + i)

\* The bytes of value, most significant first, without leading zero bytes.
RECURSIVE BigEndian(_)
BigEndian(value) ==
    IF value > 255 THEN Append(BigEndian(value \div 256), value % 256)
    ELSE <<value>>

\* int2bytes(value, min_len)
int2bytes(value, min_len) == rjust(BigEndian(value), min_len, 0)

\* bytes2int(data): int.from_bytes(data, "big"); 0 for no bytes.
RECURSIVE bytes2int(_)
bytes2int(data) ==
    IF Len(data) = 0 THEN 0
    ELSE bytes2int(SubSeq(data, 1, Len(data) - 1)) * 256 + data[Len(data)]

\* What _tlv_parse gives: a ValueError, or (tag, ln, value, rest).  Python's
\* integers are unbounded and a tag of four bytes or more exceeds 32 bits, so
\* the tag is kept as the bytes of its big-endian representation: tag << 8 | b
\* appends b, tag & 0x80 and tag & 0x1F read its last byte.  The lengths read
\* stay below 2^31 in every state reached.
TlvParseError == [raised |-> "ValueError", tag |-> <<>>, ln |-> 0,
                  value |-> <<>>, rest |-> <<>>]
TlvParsed(tag, ln, value, rest) ==
    [raised |-> "", tag |-> tag, ln |-> ln, value |-> value, rest |-> rest]

\* _tlv_parse from "value, rest = rest[:ln], rest[ln:]": two slices.
TlvParseValue(tag, ln, rest) ==
    TlvParsed(tag, ln, SliceTo(rest, ln), SliceFrom(rest, ln))

\* _tlv_parse from "ln, rest = rest[0], rest[1:]": rest[0] raises IndexError
\* (turned into ValueError) on an empty buffer; 0x80 is refused; above 0x80 the
\* length is read from a slice of n_bytes bytes.
TlvParseLength(tag, rest) ==
    IF Len(rest) = 0 THEN TlvParseError
    ELSE LET ln == rest[1]
             rest1 == Tail(rest)
         IN  IF ln = 128 THEN TlvParseError
             ELSE IF ln > 128
             THEN TlvParseValue(tag, bytes2int(SliceTo(rest1, ln - 128)),
                                SliceFrom(rest1, ln - 128))
             ELSE TlvParseValue(tag, ln, rest1)

\* _tlv_parse, "while tag & 0x80 == 0x80": further tag bytes.
RECURSIVE TlvParseTagMore(_, _)
TlvParseTagMore(tag, rest) ==
    IF tag[Len(tag)] >= 128
    THEN IF Len(rest) = 0 THEN TlvParseError
         ELSE TlvParseTagMore(Append(tag, rest[1]), Tail(rest))
    ELSE TlvParseLength(tag, rest)

\* _tlv_parse(data)
_tlv_parse(data) ==
    IF Len(data) = 0 THEN TlvParseError
    ELSE LET tag == data[1]
             rest == Tail(data)
         IN  IF tag % 32 = 31
             THEN IF Len(rest) = 0 THEN TlvParseError
                  ELSE TlvParseTagMore(<<tag, rest[1]>>, Tail(rest))
             ELSE TlvParseLength(<<tag>>, rest)

\* A Tlv object: its bytes, _tag and _value_offset; or the ValueError of its
\* construction.
TlvError == [raised |-> "ValueError", bytes |-> <<>>, _tag |-> <<>>,
             _value_offset |-> 0]

\* Tlv.__init__ on the bytes of the new object.
TlvInit(data) ==
    LET p == _tlv_parse(data)
    IN  IF p.raised # "" THEN TlvError
        ELSE IF Len(p.rest) > 0 THEN TlvError
        ELSE [raised |-> "", bytes |-> data, _tag |-> p.tag,
              _value_offset |-> Len(data) - p.ln]

\* Tlv.__new__ packing with the long form starting above 0x80, not at it.
MutantTlvPack(tag, value) ==
    int2bytes(tag, 0)
        \o (IF Len(value) <= 128 THEN <<Len(value)>>
            ELSE <<128 + Len(int2bytes(Len(value), 0))>>
                     \o int2bytes(Len(value), 0))
        \o value

\* Tlv.__new__(tag, value): the bytes packed.
TlvPack(tag, value) ==
    int2bytes(tag, 0)
        \o (IF Len(value) < 128 THEN <<Len(value)>>
            ELSE <<128 + Len(int2bytes(Len(value), 0))>>
                     \o int2bytes(Len(value), 0))
        \o value

\* Tlv(tag, value) and Tlv(data)
Tlv(tag, value) == TlvInit(TlvPack(tag, value))
TlvOfBytes(data) == TlvInit(data)

\* The properties tag (as its big-endian bytes), length and value of a Tlv
\* object.
TlvTagOf(t) == t._tag
TlvLengthOf(t) == Len(t.bytes) - t._value_offset
TlvValueOf(t) == PySliceFrom(t.bytes, t._value_offset)

\* Tlv.parse_from(data): (tlv, rest), or the ValueError of either parse.
parse_from(data) ==
    LET p == _tlv_parse(data)
    IN  IF p.raised # "" THEN [raised |-> "ValueError", tlv |-> TlvError,
                               rest |-> <<>>]
        ELSE LET t == TlvOfBytes(SliceTo(data, Len(data) - Len(p.rest)))
             IN  [raised |-> t.raised, tlv |-> t, rest |-> p.rest]

\* Tlv.parse_list(data): the Tlv objects of the buffer in order.
RECURSIVE parse_list(_)
parse_list(data) ==
    IF Len(data) = 0 THEN [raised |-> "", list |-> <<>>]
    ELSE LET one == parse_from(data)
         IN  IF one.raised # "" THEN [raised |-> "ValueError", list |-> <<>>]
             ELSE LET more == parse_list(one.rest)
                  IN  IF more.raised # "" THEN more
                      ELSE [raised |-> "", list |-> <<one.tlv>> \o more.list]

\* Tlv.unwrap(tag, data): the value of the one Tlv that data is.
unwrap(tag, data) ==
    LET t == TlvOfBytes(data)
    IN  IF t.raised # "" THEN [raised |-> "ValueError", val |-> <<>>]
        ELSE IF TlvTagOf(t) # int2bytes(tag, 0)
        THEN [raised |-> "ValueError", val |-> <<>>]
        ELSE [raised |-> "", val |-> TlvValueOf(t)]

(***************************************************************************)
(* Status words and the APDU transport's contract                          *)
(***************************************************************************)
SW ==
    [OK |-> \H9000, AUTH_METHOD_BLOCKED |-> \H6983,
     SECURITY_CONDITION_NOT_SATISFIED |-> \H6982,
     INCORRECT_PARAMETERS |-> \H6A80]

\* One command APDU as handed to SmartCardProtocol.send_apdu.
Apdu(cla, ins, p1, p2, data) ==
    [cla |-> cla, ins |-> ins, p1 |-> p1, p2 |-> p2, data |-> data]

\* send_apdu returns the payload when the final status word is 0x9000 and
\* raises ApduError carrying the status word otherwise.
ApduRaises(sw) == sw # SW.OK

(***************************************************************************)
(* PIV: constants                                                          *)
(***************************************************************************)
PIN_LEN == 8
INS_VERIFY == 32      \* 0x20
INS_CHANGE_REFERENCE == 36      \* 0x24
INS_RESET_RETRY == 44      \* 0x2C
INS_SET_PIN_RETRIES == 250     \* 0xFA
PIN_P2 == 128     \* 0x80
PUK_P2 == 129     \* 0x81

(***************************************************************************)
(* PIV: PIN/PUK helpers                                                    *)
(***************************************************************************)
\* _pin_bytes cutting a long value to its first 8 bytes.
Mutant_pin_bytes(pin) ==
    [raised |-> "", val |-> ljust(SliceTo(pin, PIN_LEN), PIN_LEN, 255)]

\* _pin_bytes: the encoded PIN padded with 0xFF to 8 bytes; ValueError when it
\* is longer than 8 bytes.
_pin_bytes(pin) ==
    IF Len(pin) > PIN_LEN
    THEN [raised |-> "ValueError", val |-> <<>>]
    ELSE [raised |-> "", val |-> ljust(pin, PIN_LEN, 255)]

\* A decoder that forgets the legacy (pre-1.0.4) range.
Mutant_retries_from_sw(ver, sw) ==
    IF sw = SW.AUTH_METHOD_BLOCKED THEN Some(0)
    ELSE IF \H63C0 <= sw /\ sw <= \H63CF THEN Some(sw % 16)
    ELSE None

\* _retries_from_sw: the remaining attempts a status word encodes, or None.
_retries_from_sw(ver, sw) ==
    IF sw = SW.AUTH_METHOD_BLOCKED THEN Some(0)
    ELSE IF TupleLt(ver, <<1, 0, 4>>)
    THEN IF \H6300 <= sw /\ sw <= \H63FF THEN Some(sw % 256) ELSE None
    ELSE IF \H63C0 <= sw /\ sw <= \H63CF THEN Some(sw % 16) ELSE None

(***************************************************************************)
(* PIV: the inputs of the PIN/PUK operations                               *)
(***************************************************************************)
\* Firmware versions a PIV applet reports: one before 1.0.4 (NEO), one after.
PivVersions == {<<1, 0, 3>>, <<5, 2, 7>>}

\* PINs and PUKs as encoded bytes: empty, "123456", "123456789".
Pins == {<<>>, <<49, 50, 51, 52, 53, 54>>,
         <<49, 50, 51, 52, 53, 54, 55, 56>>,
         <<49, 50, 51, 52, 53, 54, 55, 56, 57>>}

\* Final status words the device may answer a PIN/PUK command with.
PinStatusWords ==
    {SW.OK, SW.AUTH_METHOD_BLOCKED, SW.SECURITY_CONDITION_NOT_SATISFIED,
     SW.INCORRECT_PARAMETERS, \H6302, \H63C0, \H63C2, \H63C4}

\* The values set_pin_attempts is called with.
AttemptCounts == {1, 5}

\* The record of one PivSession call: the APDUs it sent, the status word the
\* device answered with, the exception raised ("" for none), the
\* attempts_remaining of an InvalidPinError, the status word carried by an
\* ApduError (a bare "raise" re-raises the ApduError that was caught) and the
\* value _current_pin_retries had when the call started.
PivCall(op, p2, sent, sw, raised, attempts, before) ==
    [op |-> op, p2 |-> p2, sent |-> sent, sw |-> sw, raised |-> raised,
     attempts_remaining |-> attempts,
     error_sw |-> IF raised = "ApduError" THEN Some(sw) ELSE None,
     before |-> before]

(***************************************************************************)
(* PIV: PIN/PUK operations                                                 *)
(***************************************************************************)
\* verify_pin with "if not retries" in place of "if retries is None".
Mutant_verify_pin(pin, sw) ==
    LET data == _pin_bytes(pin)
        sent == <<Apdu(0, INS_VERIFY, 0, PIN_P2, data.val)>>
        retries == _retries_from_sw(version, sw)
    IN  IF data.raised # ""
        THEN /\ pivCall' = PivCall("verify_pin", PIN_P2, <<>>, 0, data.raised,
                                   None, _current_pin_retries)
             /\ UNCHANGED <<version, _current_pin_retries, _max_pin_retries>>
        ELSE IF ~ApduRaises(sw)
        THEN /\ _current_pin_retries' = _max_pin_retries
             /\ pivCall' = PivCall("verify_pin", PIN_P2, sent, sw, "", None,
                                   _current_pin_retries)
             /\ UNCHANGED <<version, _max_pin_retries>>
        ELSE IF retries = None \/ retries = Some(0)
        THEN /\ pivCall' = PivCall("verify_pin", PIN_P2, sent, sw, "ApduError",
                                   None, _current_pin_retries)
             /\ UNCHANGED <<version, _current_pin_retries, _max_pin_retries>>
        ELSE /\ _current_pin_retries' = retries[1]
             /\ pivCall' = PivCall("verify_pin", PIN_P2, sent, sw,
                                   "InvalidPinError", retries,
                                   _current_pin_retries)
             /\ UNCHANGED <<version, _max_pin_retries>>

\* PivSession.verify_pin(pin), the device answering with status word sw.
verify_pin(pin, sw) ==
    LET data == _pin_bytes(pin)
        sent == <<Apdu(0, INS_VERIFY, 0, PIN_P2, data.val)>>
        retries == _retries_from_sw(version, sw)
    IN  IF data.raised # ""
        THEN /\ pivCall' = PivCall("verify_pin", PIN_P2, <<>>, 0, data.raised,
                                   None, _current_pin_retries)
             /\ UNCHANGED <<version, _current_pin_retries, _max_pin_retries>>
        ELSE IF ~ApduRaises(sw)
        THEN /\ _current_pin_retries' = _max_pin_retries
             /\ pivCall' = PivCall("verify_pin", PIN_P2, sent, sw, "", None,
                                   _current_pin_retries)
             /\ UNCHANGED <<version, _max_pin_retries>>
        ELSE IF retries = None
        THEN /\ pivCall' = PivCall("verify_pin", PIN_P2, sent, sw, "ApduError",
                                   None, _current_pin_retries)
             /\ UNCHANGED <<version, _current_pin_retries, _max_pin_retries>>
        ELSE /\ _current_pin_retries' = retries[1]
             /\ pivCall' = PivCall("verify_pin", PIN_P2, sent, sw,
                                   "InvalidPinError", retries,
                                   _current_pin_retries)
             /\ UNCHANGED <<version, _max_pin_retries>>

\* PivSession._change_reference(ins, p2, value1, value2), called as op.
_change_reference(op, ins, p2, value1, value2, sw) ==
    LET b1 == _pin_bytes(value1)
        b2 == _pin_bytes(value2)
        sent == <<Apdu(0, ins, 0, p2, b1.val \o b2.val)>>
        retries == _retries_from_sw(version, sw)
    IN  IF b1.raised # "" \/ b2.raised # ""
        THEN /\ pivCall' = PivCall(op, p2, <<>>, 0, "ValueError", None,
                                   _current_pin_retries)
             /\ UNCHANGED <<version, _current_pin_retries, _max_pin_retries>>
        ELSE IF ~ApduRaises(sw)
        THEN /\ pivCall' = PivCall(op, p2, sent, sw, "", None,
                                   _current_pin_retries)
             /\ UNCHANGED <<version, _current_pin_retries, _max_pin_retries>>
        ELSE IF retries = None
        THEN /\ pivCall' = PivCall(op, p2, sent, sw, "ApduError", None,
                                   _current_pin_retries)
             /\ UNCHANGED <<version, _current_pin_retries, _max_pin_retries>>
        ELSE /\ _current_pin_retries' =
                    IF p2 = PIN_P2 THEN retries[1] ELSE _current_pin_retries
             /\ pivCall' = PivCall(op, p2, sent, sw, "InvalidPinError", retries,
                                   _current_pin_retries)
             /\ UNCHANGED <<version, _max_pin_retries>>

change_pin(old_pin, new_pin, sw) ==
    _change_reference("change_pin", INS_CHANGE_REFERENCE, PIN_P2, old_pin,
                      new_pin, sw)

change_puk(old_puk, new_puk, sw) ==
    _change_reference("change_puk", INS_CHANGE_REFERENCE, PUK_P2, old_puk,
                      new_puk, sw)

unblock_pin(puk, new_pin, sw) ==
    _change_reference("unblock_pin", INS_RESET_RETRY, PIN_P2, puk, new_pin, sw)

\* PivSession.set_pin_attempts(pin_attempts, puk_attempts).
set_pin_attempts(pin_attempts, puk_attempts, sw) ==
    LET sent == <<Apdu(0, INS_SET_PIN_RETRIES, pin_attempts, puk_attempts, <<>>)>>
    IN  IF ApduRaises(sw)
        THEN /\ pivCall' = PivCall("set_pin_attempts", 0, sent, sw, "ApduError",
                                   None, _current_pin_retries)
             /\ UNCHANGED <<version, _current_pin_retries, _max_pin_retries>>
        ELSE /\ _max_pin_retries' = pin_attempts
             /\ _current_pin_retries' = pin_attempts
             /\ pivCall' = PivCall("set_pin_attempts", 0, sent, sw, "", None,
                                   _current_pin_retries)
             /\ UNCHANGED version

(***************************************************************************)
(* Initial states                                                          *)
(***************************************************************************)
\* PivSession.__init__: the version is read from the device, the retry cache
\* starts at 3/3.
PinInit ==
    /\ version \in PivVersions
    /\ _current_pin_retries = 3
    /\ _max_pin_retries = 3
    /\ pivCall = PivCall("__init__", 0, <<>>, SW.OK, "", None, 3)

PinIdle ==
    /\ version = <<5, 2, 7>>
    /\ _current_pin_retries = 3
    /\ _max_pin_retries = 3
    /\ pivCall = PivCall("__init__", 0, <<>>, SW.OK, "", None, 3)

\* The arguments _retries_from_sw is applied to: every 16-bit status word on
\* firmware on both sides of 1.0.4.
RetryVersions == {<<0, 9, 9>>, <<1, 0, 3>>, <<1, 0, 4>>, <<1, 1, 0>>, <<5, 2, 7>>}

RfInit ==
    /\ rfIn \in [version : RetryVersions, sw : 0..65535]
    /\ rfOut = [done |-> FALSE, val |-> None]

RfIdle ==
    /\ rfIn = [version |-> <<5, 2, 7>>, sw |-> SW.OK]
    /\ rfOut = [done |-> FALSE, val |-> None]

(***************************************************************************)
(* TLV: the inputs and the operations applied to them                      *)
(***************************************************************************)
\* Tags given to Tlv(tag, value): integers of one byte and of two bytes, with
\* and without the BER continuation marks (low five bits of the first byte all
\* set; high bit of a following byte set).
TlvTags == {\H00, \H01, \H1E, \H1F, \H53, \H7C, \H80, \HFF,
            \H0101, \H1F01, \H1F7F, \H1F80, \H5FC1, \H7F49, \HFFFF}

\* Values given to Tlv(tag, value): two of each length, one of bytes below
\* 0x80 and one with bytes from 0x80 on, neighbouring bytes different.
TlvLengths == {0, 1, 127, 128, 255, 256, 65535}
TlvValues ==
    {[i \in 1..n |-> (7 * i) % 128] : n \in TlvLengths}
        \cup {[i \in 1..n |-> IF i <= 2 THEN i ELSE 128 + (i % 128)] :
                 n \in TlvLengths}

\* Bytes received from a device: every buffer of at most MaxRawLen bytes over
\* bytes that are tags, short and long length octets, and payload.
MaxRawLen == 3
RawBytes == {\H00, \H01, \H02, \H1F, \H80, \H81, \HAA}
RawBuffers == UNION {[1..k -> RawBytes] : k \in 0..MaxRawLen}

\* The tags unwrap is asked for.
UnwrapTags == {\H01, \H02}

\* The result of one Tlv operation: the exception raised, or the tag, length
\* and value properties of the Tlv returned, the remainder, the list returned.
TlvResult(op, raised, tag, length, value, rest, items) ==
    [op |-> op, raised |-> raised, tag |-> tag, length |-> length,
     value |-> value, rest |-> rest, items |-> items]

TlvNoResult == TlvResult("", "", <<>>, 0, <<>>, <<>>, <<>>)

TlvObjResult(op, t, rest) ==
    IF t.raised # "" THEN TlvResult(op, t.raised, <<>>, 0, <<>>, <<>>, <<>>)
    ELSE TlvResult(op, "", TlvTagOf(t), TlvLengthOf(t), TlvValueOf(t), rest,
                   <<>>)

TlvInitBuild ==
    /\ tlvMode = "build"
    /\ tlvTag \in TlvTags
    /\ tlvValue \in TlvValues
    /\ tlvData = <<>>
    /\ tlvRes = TlvNoResult

TlvInitRaw ==
    /\ tlvMode = "raw"
    /\ tlvTag = 0
    /\ tlvValue = <<>>
    /\ tlvData \in RawBuffers
    /\ tlvRes = TlvNoResult

TlvIdle ==
    /\ tlvMode = "idle"
    /\ tlvTag = 0
    /\ tlvValue = <<>>
    /\ tlvData = <<>>
    /\ tlvRes = TlvNoResult

\* Tlv(tag, value)
TlvNew ==
    /\ tlvMode = "build"
    /\ LET t == Tlv(tlvTag, tlvValue)
       IN  /\ tlvRes' = TlvObjResult("Tlv(tag, value)", t, <<>>)
           /\ tlvData' = t.bytes
           /\ tlvMode' = IF t.raised = "" THEN "built" ELSE "failed"
    /\ UNCHANGED <<tlvTag, tlvValue>>

\* Tlv(data)
TlvOfData ==
    /\ tlvMode \in {"built", "raw"}
    /\ tlvRes' = TlvObjResult("Tlv(data)", TlvOfBytes(tlvData), <<>>)
    /\ UNCHANGED <<tlvMode, tlvTag, tlvValue, tlvData>>

\* Tlv.parse_from(data)
TlvParseFrom ==
    /\ tlvMode \in {"built", "raw"}
    /\ LET r == parse_from(tlvData)
       IN  tlvRes' = IF r.raised # ""
                     THEN TlvResult("parse_from", r.raised, <<>>, 0, <<>>,
                                    <<>>, <<>>)
                     ELSE TlvObjResult("parse_from", r.tlv, r.rest)
    /\ UNCHANGED <<tlvMode, tlvTag, tlvValue, tlvData>>

\* Tlv.parse_list(data)
TlvParseList ==
    /\ tlvMode \in {"built", "raw"}
    /\ LET r == parse_list(tlvData)
       IN  tlvRes' = TlvResult("parse_list", r.raised, <<>>, 0, <<>>, <<>>,
                               [i \in 1..Len(r.list) |->
                                   [tag |-> TlvTagOf(r.list[i]),
                                    length |-> TlvLengthOf(r.list[i]),
                                    value |-> TlvValueOf(r.list[i]),
                                    bytes |-> r.list[i].bytes]])
    /\ UNCHANGED <<tlvMode, tlvTag, tlvValue, tlvData>>

\* Tlv.unwrap(tag, data)
TlvUnwrap(tag) ==
    /\ tlvMode \in {"built", "raw"}
    /\ LET r == unwrap(tag, tlvData)
       IN  tlvRes' = TlvResult("unwrap", r.raised, int2bytes(tag, 0), 0,
                               r.val, <<>>, <<>>)
    /\ UNCHANGED <<tlvMode, tlvTag, tlvValue, tlvData>>

(***************************************************************************)
(* PIV: any sequence of PIN/PUK calls on a PivSession                      *)
(***************************************************************************)
PinNext ==
    \/ \E pin \in Pins, sw \in PinStatusWords :
           verify_pin(pin, sw) /\ UNCHANGED notPin
    \/ \E v1 \in Pins, v2 \in Pins, sw \in PinStatusWords :
           change_pin(v1, v2, sw) /\ UNCHANGED notPin
    \/ \E v1 \in Pins, v2 \in Pins, sw \in PinStatusWords :
           change_puk(v1, v2, sw) /\ UNCHANGED notPin
    \/ \E v1 \in Pins, v2 \in Pins, sw \in PinStatusWords :
           unblock_pin(v1, v2, sw) /\ UNCHANGED notPin
    \/ \E n \in AttemptCounts,
          sw \in {SW.OK, SW.SECURITY_CONDITION_NOT_SATISFIED} :
           set_pin_attempts(n, 3, sw) /\ UNCHANGED notPin

(***************************************************************************)
(* PIV: _retries_from_sw applied to one argument pair                      *)
(***************************************************************************)
ApplyRetriesFromSw ==
    /\ ~rfOut.done
    /\ rfOut' = [done |-> TRUE, val |-> _retries_from_sw(rfIn.version, rfIn.sw)]
    /\ UNCHANGED rfIn

RfNext == ApplyRetriesFromSw /\ UNCHANGED notRf

(***************************************************************************)
(* TLV: Tlv objects built from (tag, value) and parsed from bytes          *)
(***************************************************************************)
TlvNext ==
    \/ TlvNew /\ UNCHANGED notTlv
    \/ TlvOfData /\ UNCHANGED notTlv
    \/ TlvParseFrom /\ UNCHANGED notTlv
    \/ TlvParseList /\ UNCHANGED notTlv
    \/ \E tag \in UnwrapTags \cup {tlvTag} : TlvUnwrap(tag) /\ UNCHANGED notTlv

(***************************************************************************)
(* PIV: management-key authentication                                      *)
(***************************************************************************)
INS_AUTHENTICATE == 135     \* 0x87
TAG_AUTH_WITNESS == 128     \* 0x80
TAG_AUTH_CHALLENGE == 129     \* 0x81
TAG_AUTH_RESPONSE == 130     \* 0x82
TAG_DYN_AUTH == 124     \* 0x7C
TDES == 3       \* 0x03
SLOT ==
    [AUTHENTICATION |-> \H9A, CARD_MANAGEMENT |-> \H9B, SIGNATURE |-> \H9C,
     KEY_MANAGEMENT |-> \H9D, CARD_AUTH |-> \H9E, RETIRED1 |-> \H82,
     RETIRED2 |-> \H83, RETIRED3 |-> \H84, RETIRED4 |-> \H85,
     RETIRED5 |-> \H86, RETIRED6 |-> \H87, RETIRED7 |-> \H88,
     RETIRED8 |-> \H89, RETIRED9 |-> \H8A, RETIRED10 |-> \H8B,
     RETIRED11 |-> \H8C, RETIRED12 |-> \H8D, RETIRED13 |-> \H8E,
     RETIRED14 |-> \H8F, RETIRED15 |-> \H90, RETIRED16 |-> \H91,
     RETIRED17 |-> \H92, RETIRED18 |-> \H93, RETIRED19 |-> \H94,
     RETIRED20 |-> \H95, ATTESTATION |-> \HF9]

\* The block cipher.  DES itself is replaced by a keyed permutation of the
\* 8-byte blocks (each byte of a block is shifted by the key byte at its
\* position); the triple construction, the ECB mode, the key sizes accepted
\* and the block-length check are those of TripleDES.
DesE(k, x) == [i \in 1..Len(x) |-> (x[i] + k[((i - 1) % 8) + 1]) % 256]
DesD(k, x) == [i \in 1..Len(x) |-> (x[i] + 256 - k[((i - 1) % 8) + 1]) % 256]

\* algorithms.TripleDES(key): keys of 8, 16 or 24 bytes; K1, K2, K3.
TripleDESKeyError(key) == Len(key) \notin {8, 16, 24}
K1(key) == SubSeq(key, 1, 8)
K2(key) == IF Len(key) >= 16 THEN SubSeq(key, 9, 16) ELSE K1(key)
K3(key) == IF Len(key) = 24 THEN SubSeq(key, 17, 24) ELSE K1(key)

\* encryptor.update(data) + encryptor.finalize(), ECB without padding
TDesEncrypt(key, data) == DesE(K3(key), DesD(K2(key), DesE(K1(key), data)))
\* decryptor.update(data) + decryptor.finalize()
TDesDecrypt(key, data) == DesD(K1(key), DesE(K2(key), DesD(K3(key), data)))
\* finalize() raises ValueError on a partial block
PartialBlock(data) == Len(data) % 8 # 0

\* The comparison accepting every response.
Mutant_bytes_eq(a, b) == TRUE

\* constant_time.bytes_eq
bytes_eq(a, b) == a = b

\* The two command APDUs of authenticate.
WitnessRequest ==
    Apdu(0, INS_AUTHENTICATE, TDES, SLOT.CARD_MANAGEMENT,
         Tlv(TAG_DYN_AUTH, Tlv(TAG_AUTH_WITNESS, <<>>).bytes).bytes)
ChallengeReply(decrypted, challenge) ==
    Apdu(0, INS_AUTHENTICATE, TDES, SLOT.CARD_MANAGEMENT,
         Tlv(TAG_DYN_AUTH,
             Tlv(TAG_AUTH_WITNESS, decrypted).bytes
                 \o Tlv(TAG_AUTH_CHALLENGE, challenge).bytes).bytes)

\* authenticate(management_key) up to its first send_apdu.
authenticate(management_key) ==
    /\ authPc \in {"ready", "done"}
    /\ authPc' = "witness_requested"
    /\ authKey' = management_key
    /\ authSent' = <<WitnessRequest>>
    /\ authChallenge' = <<>>
    /\ authRecv' = <<>>
    /\ authRaised' = ""

AuthEnd(raised) ==
    /\ authPc' = "done"
    /\ authRaised' = raised

\* The card answers the witness request with (data, sw); authenticate runs on
\* to its second send_apdu, drawing challenge from os.urandom(8).
AuthWitnessAnswer(data, sw, challenge) ==
    /\ authPc = "witness_requested"
    /\ UNCHANGED authKey
    /\ authRecv' = IF ApduRaises(sw) THEN authRecv ELSE Append(authRecv, data)
    /\ IF ApduRaises(sw)
       THEN AuthEnd("ApduError") /\ UNCHANGED <<authSent, authChallenge>>
       ELSE LET outer == unwrap(TAG_DYN_AUTH, data)
                witness == unwrap(TAG_AUTH_WITNESS, outer.val)
            IN  IF outer.raised # "" \/ witness.raised # ""
                THEN AuthEnd("ValueError")
                     /\ UNCHANGED <<authSent, authChallenge>>
                ELSE IF TripleDESKeyError(authKey) \/ PartialBlock(witness.val)
                THEN /\ AuthEnd("ValueError")
                     /\ authChallenge' = challenge
                     /\ UNCHANGED authSent
                ELSE /\ authPc' = "reply_sent"
                     /\ authChallenge' = challenge
                     /\ authSent' = Append(authSent,
                            ChallengeReply(TDesDecrypt(authKey, witness.val),
                                           challenge))
                     /\ UNCHANGED authRaised

\* The card answers the reply with (data, sw); authenticate runs to its end.
AuthFinalAnswer(data, sw) ==
    /\ authPc = "reply_sent"
    /\ UNCHANGED <<authKey, authSent, authChallenge>>
    /\ IF ApduRaises(sw)
       THEN AuthEnd("ApduError") /\ UNCHANGED authRecv
       ELSE /\ authRecv' = Append(authRecv, data)
            /\ LET outer == unwrap(TAG_DYN_AUTH, data)
                   encrypted == unwrap(TAG_AUTH_RESPONSE, outer.val)
                   expected == TDesEncrypt(authKey, authChallenge)
               IN  IF outer.raised # "" \/ encrypted.raised # ""
                   THEN AuthEnd("ValueError")
                   ELSE IF ~bytes_eq(expected, encrypted.val)
                   THEN AuthEnd("BadResponseError")
                   ELSE AuthEnd("")

\* The inputs: management keys of every accepted size and of a rejected one,
\* the 8 bytes the host draws, and what a card may answer.
KeyA == [i \in 1..24 |-> i]
KeyB == [i \in 1..24 |-> (i * 11) % 256]
ManagementKeys ==
    {KeyA, KeyB, SubSeq(KeyA, 1, 16), SubSeq(KeyB, 1, 8), SubSeq(KeyA, 1, 5)}
Challenges == {[i \in 1..8 |-> 0], [i \in 1..8 |-> 16 * i + 1]}
Witnesses == {[i \in 1..8 |-> 255 - i], [i \in 1..16 |-> 3 * i], <<>>,
              <<1, 2, 3>>}
Wrapped(tag, value) == Tlv(TAG_DYN_AUTH, Tlv(tag, value).bytes).bytes
WitnessAnswers ==
    {Wrapped(TAG_AUTH_WITNESS, w) : w \in Witnesses}
        \cup {<<>>, Wrapped(TAG_AUTH_RESPONSE, [i \in 1..8 |-> 255 - i]),
              Tlv(TAG_AUTH_WITNESS, [i \in 1..8 |-> 255 - i]).bytes}
FinalValues ==
    {TDesEncrypt(k, c) : k \in {KeyA, KeyB, SubSeq(KeyA, 1, 16)},
                         c \in Challenges}
        \cup {TDesDecrypt(KeyA, c) : c \in Challenges}
        \cup Challenges
        \cup {<<>>, SubSeq(TDesEncrypt(KeyA, [i \in 1..8 |-> 0]), 1, 7)}
FinalAnswers ==
    {Wrapped(TAG_AUTH_RESPONSE, x) : x \in FinalValues}
        \cup {<<>>, Wrapped(TAG_AUTH_WITNESS, TDesEncrypt(KeyA, [i \in 1..8 |-> 0])),
              Tlv(TAG_AUTH_RESPONSE, TDesEncrypt(KeyA, [i \in 1..8 |-> 0])).bytes,
              Wrapped(TAG_AUTH_RESPONSE, TDesEncrypt(KeyA, [i \in 1..8 |-> 0]))
                  \o <<0>>}
AuthStatusWords == {SW.OK, SW.SECURITY_CONDITION_NOT_SATISFIED,
                    SW.INCORRECT_PARAMETERS}

AuthIdle ==
    /\ authPc = "ready"
    /\ authKey = <<>>
    /\ authSent = <<>>
    /\ authChallenge = <<>>
    /\ authRecv = <<>>
    /\ authRaised = ""

AuthNext ==
    \/ \E key \in ManagementKeys : authenticate(key) /\ UNCHANGED notAuth
    \/ \E data \in WitnessAnswers, sw \in AuthStatusWords,
          challenge \in Challenges :
           AuthWitnessAnswer(data, sw, challenge) /\ UNCHANGED notAuth
    \/ \E data \in FinalAnswers, sw \in AuthStatusWords :
           AuthFinalAnswer(data, sw) /\ UNCHANGED notAuth

(***************************************************************************)
(* Management: DeviceConfig and DeviceInfo                                 *)
(***************************************************************************)
\* class TAG
TAG ==
    [USB_SUPPORTED |-> \H01, SERIAL |-> \H02, USB_ENABLED |-> \H03,
     FORM_FACTOR |-> \H04, VERSION |-> \H05, AUTO_EJECT_TIMEOUT |-> \H06,
     CHALRESP_TIMEOUT |-> \H07, DEVICE_FLAGS |-> \H08,
     APP_VERSIONS |-> \H09, CONFIG_LOCK |-> \H0A, UNLOCK |-> \H0B,
     REBOOT |-> \H0C, NFC_SUPPORTED |-> \H0D, NFC_ENABLED |-> \H0E]

\* DeviceConfig(enabled_applications, auto_eject_timeout,
\* challenge_response_timeout, device_flags); the mapping is kept as its two
\* possible entries, each an Optional.
DeviceConfig(usb, nfc, auto_eject_timeout, challenge_response_timeout, device_flags) ==
    [usb_enabled |-> usb, nfc_enabled |-> nfc,
     auto_eject_timeout |-> auto_eject_timeout,
     challenge_response_timeout |-> challenge_response_timeout,
     device_flags |-> device_flags]

\* buf += Tlv(tag, value) under a condition
TlvIf(cond, tag, value) == IF cond THEN Tlv(tag, value).bytes ELSE <<>>

\* The truth value of an Optional[bytes]: neither None nor empty.
Truthy(code) == code # None /\ Len(code[1]) > 0

\* The buffer DeviceConfig.get_bytes builds before its size check.  The
\* conditional arguments are evaluated only when the field is present.
ConfigBuf(config, reboot, cur_lock_code, new_lock_code) ==
    TlvIf(reboot, TAG.REBOOT, <<>>)
        \o (IF Truthy(cur_lock_code)
            THEN Tlv(TAG.UNLOCK, cur_lock_code[1]).bytes ELSE <<>>)
        \o (IF config.usb_enabled # None
            THEN Tlv(TAG.USB_ENABLED,
                     int2bytes(config.usb_enabled[1], 2)).bytes ELSE <<>>)
        \o (IF config.nfc_enabled # None
            THEN Tlv(TAG.NFC_ENABLED,
                     int2bytes(config.nfc_enabled[1], 2)).bytes ELSE <<>>)
        \o (IF config.auto_eject_timeout # None
            THEN Tlv(TAG.AUTO_EJECT_TIMEOUT,
                     int2bytes(config.auto_eject_timeout[1], 2)).bytes
            ELSE <<>>)
        \o (IF config.challenge_response_timeout # None
            THEN Tlv(TAG.CHALRESP_TIMEOUT,
                     int2bytes(config.challenge_response_timeout[1], 0)).bytes
            ELSE <<>>)
        \o (IF config.device_flags # None
            THEN Tlv(TAG.DEVICE_FLAGS,
                     int2bytes(config.device_flags[1], 0)).bytes ELSE <<>>)
        \o (IF Truthy(new_lock_code)
            THEN Tlv(TAG.CONFIG_LOCK, new_lock_code[1]).bytes ELSE <<>>)

\* A variant of get_bytes that tests the USB mask for truth, not for None.
Mutant_get_bytes(config, reboot, cur_lock_code, new_lock_code) ==
    LET sparse == IF config.usb_enabled = Some(0)
                  THEN [config EXCEPT !.usb_enabled = None] ELSE config
        buf == ConfigBuf(sparse, reboot, cur_lock_code, new_lock_code)
    IN  IF Len(buf) > \HFF
        THEN [raised |-> "NotSupportedError", val |-> <<>>]
        ELSE [raised |-> "", val |-> int2bytes(Len(buf), 0) \o buf]

\* DeviceConfig.get_bytes(reboot, cur_lock_code, new_lock_code)
get_bytes(config, reboot, cur_lock_code, new_lock_code) ==
    LET buf == ConfigBuf(config, reboot, cur_lock_code, new_lock_code)
    IN  IF Len(buf) > \HFF
        THEN [raised |-> "NotSupportedError", val |-> <<>>]
        ELSE [raised |-> "", val |-> int2bytes(Len(buf), 0) \o buf]

\* Tlv.parse_dict(data): a dict built from the (tag, value) pairs in order, so
\* the last pair of a tag is the one kept.  It is represented by the list;
\* Has and Get read it as the dict.
parse_dict(data) == parse_list(data)
Has(d, tag) == \E i \in 1..Len(d) : TlvTagOf(d[i]) = int2bytes(tag, 0)
Get(d, tag, default) ==
    IF Has(d, tag)
    THEN LET i == CHOOSE j \in 1..Len(d) :
                      /\ TlvTagOf(d[j]) = int2bytes(tag, 0)
                      /\ \A k \in (j + 1)..Len(d) :
                             TlvTagOf(d[k]) # int2bytes(tag, 0)
         IN  TlvValueOf(d[i])
    ELSE default

\* FORM_FACTOR.from_code(code)
FORM_FACTOR ==
    [UNKNOWN |-> \H00, USB_A_KEYCHAIN |-> \H01, USB_A_NANO |-> \H02,
     USB_C_KEYCHAIN |-> \H03, USB_C_NANO |-> \H04, USB_C_LIGHTNING |-> \H05]
FORM_FACTOR_from_code(code) ==
    IF code \in Members(FORM_FACTOR) THEN code ELSE FORM_FACTOR.UNKNOWN

\* What DeviceInfo.parse gives: an exception, or the DeviceInfo.
NoDeviceInfo ==
    [config |-> DeviceConfig(None, None, None, None, None), serial |-> None,
     version |-> <<>>, form_factor |-> FORM_FACTOR.UNKNOWN,
     supported_usb |-> None, supported_nfc |-> None, is_locked |-> FALSE]
ParseRaises(exc) == [raised |-> exc, info |-> NoDeviceInfo]

\* DeviceInfoOf reporting the USB_SUPPORTED field whatever the version.
Mutant_DeviceInfoOf(data, default_version) ==
    LET locked == Get(data, TAG.CONFIG_LOCK, <<>>) = <<1>>
        serialNo == bytes2int(Get(data, TAG.SERIAL, <<0>>))
        form_factor ==
            FORM_FACTOR_from_code(bytes2int(Get(data, TAG.FORM_FACTOR, <<0>>)))
        ver == IF Has(data, TAG.VERSION)
               THEN Get(data, TAG.VERSION, <<>>) ELSE default_version
        auto_eject_to == bytes2int(Get(data, TAG.AUTO_EJECT_TIMEOUT, <<0>>))
        chal_resp_to == bytes2int(Get(data, TAG.CHALRESP_TIMEOUT, <<0>>))
        flags == bytes2int(Get(data, TAG.DEVICE_FLAGS, <<0>>))
        nfc == Has(data, TAG.NFC_SUPPORTED)
    IN  IF Len(ver) # 3 THEN ParseRaises("TypeError")
        ELSE IF ver # <<4, 2, 4>> /\ ~Has(data, TAG.USB_SUPPORTED)
        THEN ParseRaises("KeyError")
        ELSE IF nfc /\ ~Has(data, TAG.NFC_ENABLED)
        THEN ParseRaises("KeyError")
        ELSE [raised |-> "",
              info |->
                [config |->
                   DeviceConfig(
                     IF Has(data, TAG.USB_ENABLED)
                     THEN Some(bytes2int(Get(data, TAG.USB_ENABLED, <<>>)))
                     ELSE None,
                     IF nfc
                     THEN Some(bytes2int(Get(data, TAG.NFC_ENABLED, <<>>)))
                     ELSE None,
                     Some(auto_eject_to), Some(chal_resp_to), Some(flags)),
                 serial |-> IF serialNo = 0 THEN None ELSE Some(serialNo),
                 version |-> ver,
                 form_factor |-> form_factor,
                 supported_usb |->
                   Some(bytes2int(Get(data, TAG.USB_SUPPORTED, <<>>))),
                 supported_nfc |->
                   IF nfc
                   THEN Some(bytes2int(Get(data, TAG.NFC_SUPPORTED, <<>>)))
                   ELSE None,
                 is_locked |-> locked]]

\* DeviceInfo.parse(encoded, default_version), after the dict is built
DeviceInfoOf(data, default_version) ==
    LET locked == Get(data, TAG.CONFIG_LOCK, <<>>) = <<1>>
        serialNo == bytes2int(Get(data, TAG.SERIAL, <<0>>))
        form_factor ==
            FORM_FACTOR_from_code(bytes2int(Get(data, TAG.FORM_FACTOR, <<0>>)))
        ver == IF Has(data, TAG.VERSION)
               THEN Get(data, TAG.VERSION, <<>>) ELSE default_version
        auto_eject_to == bytes2int(Get(data, TAG.AUTO_EJECT_TIMEOUT, <<0>>))
        chal_resp_to == bytes2int(Get(data, TAG.CHALRESP_TIMEOUT, <<0>>))
        flags == bytes2int(Get(data, TAG.DEVICE_FLAGS, <<0>>))
        nfc == Has(data, TAG.NFC_SUPPORTED)
    IN  IF Len(ver) # 3 THEN ParseRaises("TypeError")
        ELSE IF ver # <<4, 2, 4>> /\ ~Has(data, TAG.USB_SUPPORTED)
        THEN ParseRaises("KeyError")
        ELSE IF nfc /\ ~Has(data, TAG.NFC_ENABLED)
        THEN ParseRaises("KeyError")
        ELSE [raised |-> "",
              info |->
                [config |->
                   DeviceConfig(
                     IF Has(data, TAG.USB_ENABLED)
                     THEN Some(bytes2int(Get(data, TAG.USB_ENABLED, <<>>)))
                     ELSE None,
                     IF nfc
                     THEN Some(bytes2int(Get(data, TAG.NFC_ENABLED, <<>>)))
                     ELSE None,
                     Some(auto_eject_to), Some(chal_resp_to), Some(flags)),
                 serial |-> IF serialNo = 0 THEN None ELSE Some(serialNo),
                 version |-> ver,
                 form_factor |-> form_factor,
                 supported_usb |->
                   IF ver = <<4, 2, 4>> THEN Some(\H3F)
                   ELSE Some(bytes2int(Get(data, TAG.USB_SUPPORTED, <<>>))),
                 supported_nfc |->
                   IF nfc
                   THEN Some(bytes2int(Get(data, TAG.NFC_SUPPORTED, <<>>)))
                   ELSE None,
                 is_locked |-> locked]]

\* DeviceInfo.parse(encoded, default_version)
DeviceInfo_parse(encoded, default_version) ==
    IF Len(encoded) = 0 THEN ParseRaises("IndexError")
    ELSE IF Len(encoded) - 1 # encoded[1] THEN ParseRaises("BadResponseError")
    ELSE LET data == parse_dict(SliceFrom(encoded, 1))
         IN  IF data.raised # "" THEN ParseRaises("ValueError")
             ELSE DeviceInfoOf(data.list, default_version)

(***************************************************************************)
(* Management: the session                                                 *)
(***************************************************************************)
\* One invocation of a backend primitive.
BackendCall(op, arg) == [op |-> op, arg |-> arg]

\* What a ManagementSession call leaves behind: its arguments, the exception
\* it raised ("" for none) and the DeviceInfo it returned.
MgmtCall(op, args, raised, info) ==
    [op |-> op, args |-> args, raised |-> raised, info |-> info]
NoArgs == [config |-> None, reboot |-> FALSE, cur_lock_code |-> None,
           new_lock_code |-> None]

\* read_device_info with its gate one minor version early.
Mutant_read_device_info(backend_raised, response) ==
    /\ UNCHANGED mgmtVersion
    /\ IF TupleLt(mgmtVersion, <<4, 0, 0>>)
       THEN /\ mgmtBackend' = <<>>
            /\ mgmtCall' = MgmtCall("read_device_info", NoArgs,
                                    "NotSupportedError", NoDeviceInfo)
       ELSE /\ mgmtBackend' = <<BackendCall("read_config", <<>>)>>
            /\ mgmtCall' =
                 IF backend_raised # ""
                 THEN MgmtCall("read_device_info", NoArgs, backend_raised,
                               NoDeviceInfo)
                 ELSE LET r == DeviceInfo_parse(response, mgmtVersion)
                      IN  MgmtCall("read_device_info", NoArgs, r.raised, r.info)

\* ManagementSession.read_device_info(); the backend's read_config raises
\* backend_raised or returns response.
read_device_info(backend_raised, response) ==
    /\ UNCHANGED mgmtVersion
    /\ IF TupleLt(mgmtVersion, <<4, 1, 0>>)
       THEN /\ mgmtBackend' = <<>>
            /\ mgmtCall' = MgmtCall("read_device_info", NoArgs,
                                    "NotSupportedError", NoDeviceInfo)
       ELSE /\ mgmtBackend' = <<BackendCall("read_config", <<>>)>>
            /\ mgmtCall' =
                 IF backend_raised # ""
                 THEN MgmtCall("read_device_info", NoArgs, backend_raised,
                               NoDeviceInfo)
                 ELSE LET r == DeviceInfo_parse(response, mgmtVersion)
                      IN  MgmtCall("read_device_info", NoArgs, r.raised, r.info)

\* ManagementSession.write_device_config(config, reboot, cur_lock_code,
\* new_lock_code); the backend's write_config raises backend_raised or returns.
write_device_config(config, reboot, cur_lock_code, new_lock_code, backend_raised) ==
    LET args == [config |-> config, reboot |-> reboot,
                 cur_lock_code |-> cur_lock_code,
                 new_lock_code |-> new_lock_code]
        cfg == IF config # None THEN config[1]
               ELSE DeviceConfig(None, None, None, None, None)
        encoded == get_bytes(cfg, reboot, cur_lock_code, new_lock_code)
    IN  /\ UNCHANGED mgmtVersion
        /\ IF TupleLt(mgmtVersion, <<5, 0, 0>>)
           THEN /\ mgmtBackend' = <<>>
                /\ mgmtCall' = MgmtCall("write_device_config", args,
                                        "NotSupportedError", NoDeviceInfo)
           ELSE IF encoded.raised # ""
           THEN /\ mgmtBackend' = <<>>
                /\ mgmtCall' = MgmtCall("write_device_config", args,
                                        encoded.raised, NoDeviceInfo)
           ELSE /\ mgmtBackend' = <<BackendCall("write_config", encoded.val)>>
                /\ mgmtCall' = MgmtCall("write_device_config", args,
                                        backend_raised, NoDeviceInfo)

\* USB_INTERFACE and APPLICATION are flag sets; flag in flags tests one flag.
USB_INTERFACE == [OTP |-> \H01, FIDO |-> \H02, CCID |-> \H04]
APPLICATION ==
    [OTP |-> \H01, U2F |-> \H02, OPGP |-> \H08, PIV |-> \H10, OATH |-> \H20,
     FIDO2 |-> \H200]
FlagIn(flag, flags) == (flags \div flag) % 2 = 1

\* _MODES, and Mode(interfaces) for interfaces that _MODES lists (any other
\* value makes the constructor raise ValueError, so no such Mode exists).
_MODES ==
    <<USB_INTERFACE.OTP,
      USB_INTERFACE.CCID,
      USB_INTERFACE.OTP + USB_INTERFACE.CCID,
      USB_INTERFACE.FIDO,
      USB_INTERFACE.OTP + USB_INTERFACE.FIDO,
      USB_INTERFACE.FIDO + USB_INTERFACE.CCID,
      USB_INTERFACE.OTP + USB_INTERFACE.FIDO + USB_INTERFACE.CCID>>
Mode(interfaces) ==
    [code |-> (CHOOSE i \in 1..Len(_MODES) : _MODES[i] = interfaces) - 1,
     interfaces |-> interfaces]

\* struct.pack(">BBH", a, b, c): struct.error unless each value fits its field.
pack_BBH(a, b, c) ==
    IF a \notin 0..255 \/ b \notin 0..255 \/ c \notin 0..65535
    THEN [raised |-> "struct.error", val |-> <<>>]
    ELSE [raised |-> "", val |-> <<a, b, c \div 256, c % 256>>]

\* A variant of the translation that leaves OpenPGP out of the CCID group.
Mutant_usb_enabled(interfaces) ==
    (IF FlagIn(USB_INTERFACE.OTP, interfaces) THEN APPLICATION.OTP ELSE 0)
        + (IF FlagIn(USB_INTERFACE.CCID, interfaces)
           THEN APPLICATION.OATH + APPLICATION.PIV ELSE 0)
        + (IF FlagIn(USB_INTERFACE.FIDO, interfaces)
           THEN APPLICATION.U2F + APPLICATION.FIDO2 ELSE 0)

\* The usb_enabled mask set_mode builds from the interfaces of the mode.
usb_enabled(interfaces) ==
    (IF FlagIn(USB_INTERFACE.OTP, interfaces) THEN APPLICATION.OTP ELSE 0)
        + (IF FlagIn(USB_INTERFACE.CCID, interfaces)
           THEN APPLICATION.OATH + APPLICATION.PIV + APPLICATION.OPGP ELSE 0)
        + (IF FlagIn(USB_INTERFACE.FIDO, interfaces)
           THEN APPLICATION.U2F + APPLICATION.FIDO2 ELSE 0)

\* ManagementSession.set_mode(mode, chalresp_timeout, auto_eject_timeout); the
\* backend primitive it reaches raises backend_raised or returns.  On firmware
\* 5.0.0 and later it calls write_device_config with the translated
\* DeviceConfig, which passes its own version gate.
set_mode(mode, chalresp_timeout, auto_eject_timeout, backend_raised) ==
    LET args == [mode |-> mode, chalresp_timeout |-> chalresp_timeout,
                 auto_eject_timeout |-> auto_eject_timeout]
        config == DeviceConfig(Some(usb_enabled(mode.interfaces)), None,
                               Some(auto_eject_timeout),
                               Some(chalresp_timeout), None)
        encoded == get_bytes(config, FALSE, None, None)
        packed == pack_BBH(mode.code, chalresp_timeout, auto_eject_timeout)
        Done(backend, raised) ==
            /\ mgmtBackend' = backend
            /\ mgmtCall' = MgmtCall("set_mode", args, raised, NoDeviceInfo)
    IN  /\ UNCHANGED mgmtVersion
        /\ IF TupleLt(mgmtVersion, <<3, 0, 0>>)
           THEN Done(<<>>, "NotSupportedError")
           ELSE IF TupleGe(mgmtVersion, <<5, 0, 0>>)
           THEN IF encoded.raised # "" THEN Done(<<>>, encoded.raised)
                ELSE Done(<<BackendCall("write_config", encoded.val)>>,
                          backend_raised)
           ELSE IF packed.raised # "" THEN Done(<<>>, packed.raised)
                ELSE Done(<<BackendCall("set_mode", packed.val)>>,
                          backend_raised)

\* The inputs.  ManagementSession.__init__ refuses a version below 3.0.0.
MgmtVersions ==
    {<<3, 0, 0>>, <<4, 0, 9>>, <<4, 1, 0>>, <<4, 2, 4>>, <<4, 9, 9>>,
     <<5, 0, 0>>, <<5, 2, 7>>}
LockCodes ==
    {None, Some(<<>>), Some([i \in 1..16 |-> i]), Some([i \in 1..254 |-> 255])}
DeviceConfigs ==
    {None,
     Some(DeviceConfig(None, None, None, None, None)),
     Some(DeviceConfig(Some(\H023F), None, Some(0), Some(15), Some(\H80))),
     Some(DeviceConfig(Some(0), Some(\H3B), Some(\H012C), None, None))}
BackendErrors == {"", "ApduError"}
Modes == {Mode(_MODES[i]) : i \in 1..Len(_MODES)}
ChalrespTimeouts == {0, 15, 256}
AutoEjectTimeouts == {0, 300, 65536}

\* What a device may answer to read_config: a length byte and TLVs.
Framed(body) == <<Len(body)>> \o body
InfoItem(tag, value) == Tlv(tag, value).bytes
InfoBodies ==
    {<<>>,
     InfoItem(TAG.USB_SUPPORTED, <<\H3F>>),
     InfoItem(TAG.USB_SUPPORTED, <<\H02, \H3F>>)
         \o InfoItem(TAG.SERIAL, <<\H00, \H5B, \HA0, \H11>>)
         \o InfoItem(TAG.USB_ENABLED, <<\H02, \H3B>>)
         \o InfoItem(TAG.FORM_FACTOR, <<\H03>>)
         \o InfoItem(TAG.VERSION, <<5, 2, 7>>)
         \o InfoItem(TAG.AUTO_EJECT_TIMEOUT, <<\H00, \H00>>)
         \o InfoItem(TAG.CHALRESP_TIMEOUT, <<\H0F>>)
         \o InfoItem(TAG.DEVICE_FLAGS, <<\H80>>)
         \o InfoItem(TAG.CONFIG_LOCK, <<\H01>>)
         \o InfoItem(TAG.NFC_SUPPORTED, <<\H02, \H3F>>)
         \o InfoItem(TAG.NFC_ENABLED, <<\H00, \H00>>),
     InfoItem(TAG.USB_SUPPORTED, <<\H01>>)
         \o InfoItem(TAG.VERSION, <<4, 2, 4>>),
     InfoItem(TAG.VERSION, <<4, 2, 4>>),
     InfoItem(TAG.USB_SUPPORTED, <<\H3F>>)
         \o InfoItem(TAG.VERSION, <<5, 2>>),
     InfoItem(TAG.USB_SUPPORTED, <<\H3F>>)
         \o InfoItem(TAG.NFC_SUPPORTED, <<\H3F>>),
     InfoItem(TAG.USB_SUPPORTED, <<\H3F>>)
         \o InfoItem(TAG.USB_SUPPORTED, <<\H01>>)
         \o InfoItem(TAG.FORM_FACTOR, <<\H09>>),
     <<TAG.USB_SUPPORTED>>}
ReadResponses ==
    {Framed(b) : b \in InfoBodies}
        \cup {<<>>, <<\H05, TAG.USB_SUPPORTED, \H01, \H3F>>}

\* ManagementSession.__init__ over a backend of any supported version
MgmtInit ==
    /\ mgmtVersion \in MgmtVersions
    /\ mgmtBackend = <<>>
    /\ mgmtCall = MgmtCall("__init__", NoArgs, "", NoDeviceInfo)

MgmtIdle ==
    /\ mgmtVersion = <<5, 2, 7>>
    /\ mgmtBackend = <<>>
    /\ mgmtCall = MgmtCall("__init__", NoArgs, "", NoDeviceInfo)

MgmtNext ==
    \/ \E e \in BackendErrors, response \in ReadResponses :
           read_device_info(e, response) /\ UNCHANGED notMgmt
    \/ \E config \in DeviceConfigs, reboot \in BOOLEAN, cur \in LockCodes,
          new \in LockCodes, e \in BackendErrors :
           write_device_config(config, reboot, cur, new, e)
               /\ UNCHANGED notMgmt
    \/ \E mode \in Modes, chalresp_timeout \in ChalrespTimeouts,
          auto_eject_timeout \in AutoEjectTimeouts, e \in BackendErrors :
           set_mode(mode, chalresp_timeout, auto_eject_timeout, e)
               /\ UNCHANGED notMgmt

(***************************************************************************)
(* PIV: key generation and import                                          *)
(***************************************************************************)
KEY_TYPE ==
    [RSA1024 |-> \H06, RSA2048 |-> \H07, ECCP256 |-> \H11, ECCP384 |-> \H14]
\* KEY_TYPE.algorithm and KEY_TYPE.bit_len
algorithm(key_type) ==
    IF key_type \in {KEY_TYPE.ECCP256, KEY_TYPE.ECCP384} THEN "EC" ELSE "RSA"
bit_len(key_type) ==
    IF key_type = KEY_TYPE.RSA1024 THEN 1024
    ELSE IF key_type = KEY_TYPE.RSA2048 THEN 2048
    ELSE IF key_type = KEY_TYPE.ECCP256 THEN 256
    ELSE 384

PIN_POLICY == [DEFAULT |-> \H0, NEVER |-> \H1, ONCE |-> \H2, ALWAYS |-> \H3]
TOUCH_POLICY == [DEFAULT |-> \H0, NEVER |-> \H1, ALWAYS |-> \H2, CACHED |-> \H3]
INS_GENERATE_ASYMMETRIC == 71      \* 0x47
INS_IMPORT_KEY == 254     \* 0xFE
TAG_GEN_ALGORITHM == 128     \* 0x80
TAG_PIN_POLICY == 170     \* 0xAA
TAG_TOUCH_POLICY == 171     \* 0xAB

\* A private key as put_key reads it: the type of its public key, the key
\* size or the curve, the public exponent, and the private numbers.  A
\* number is held as the bytes of its magnitude, most significant first.
PrivateKey(kind, size, curve, e, numbers) ==
    [kind |-> kind, key_size |-> size, curve |-> curve, e |-> e,
     numbers |-> numbers]

\* KEY_TYPE.from_public_key(key): the KEY_TYPE, or the exception of an RSA
\* size that names no member and of any other curve or key.
from_public_key(key) ==
    IF key.kind = "RSA"
    THEN IF key.key_size = 1024 THEN [raised |-> "", val |-> KEY_TYPE.RSA1024]
         ELSE IF key.key_size = 2048
         THEN [raised |-> "", val |-> KEY_TYPE.RSA2048]
         ELSE [raised |-> "AttributeError", val |-> 0]
    ELSE IF key.kind = "EC" /\ key.curve = "secp256r1"
    THEN [raised |-> "", val |-> KEY_TYPE.ECCP256]
    ELSE IF key.kind = "EC" /\ key.curve = "secp384r1"
    THEN [raised |-> "", val |-> KEY_TYPE.ECCP384]
    ELSE [raised |-> "ValueError", val |-> 0]

\* cryptography.utils.int_to_bytes(integer, length) on a magnitude
int_to_bytes(magnitude, length) == rjust(magnitude, length, 0)

\* _check_key_support without the FIPS rule.
Mutant_check_key_support(ver, key_type, pin_policy, touch_policy) ==
    IF TupleLt(ver, <<4, 0, 0>>)
       /\ (key_type = KEY_TYPE.ECCP384
           \/ touch_policy # TOUCH_POLICY.DEFAULT
           \/ pin_policy # PIN_POLICY.DEFAULT)
    THEN "NotSupportedError"
    ELSE IF touch_policy = TOUCH_POLICY.CACHED /\ TupleLt(ver, <<4, 3, 0>>)
    THEN "NotSupportedError"
    ELSE ""

\* _check_key_support(version, key_type, pin_policy, touch_policy): the
\* exception raised, "" for none.
_check_key_support(ver, key_type, pin_policy, touch_policy) ==
    IF TupleLt(ver, <<4, 0, 0>>)
       /\ (key_type = KEY_TYPE.ECCP384
           \/ touch_policy # TOUCH_POLICY.DEFAULT
           \/ pin_policy # PIN_POLICY.DEFAULT)
    THEN "NotSupportedError"
    ELSE IF touch_policy = TOUCH_POLICY.CACHED /\ TupleLt(ver, <<4, 3, 0>>)
    THEN "NotSupportedError"
    ELSE IF key_type = KEY_TYPE.RSA1024 /\ TupleGe(ver, <<4, 4, 0>>)
            /\ TupleLt(ver, <<4, 5, 0>>)
    THEN "NotSupportedError"
    ELSE ""

\* data += Tlv(TAG_PIN_POLICY, ...) and Tlv(TAG_TOUCH_POLICY, ...)
PolicyTlvs(pin_policy, touch_policy) ==
    (IF pin_policy # 0 THEN Tlv(TAG_PIN_POLICY, <<pin_policy>>).bytes
     ELSE <<>>)
        \o (IF touch_policy # 0
            THEN Tlv(TAG_TOUCH_POLICY, <<touch_policy>>).bytes ELSE <<>>)

\* What a key call leaves behind.
KeyCall(op, slot, key_type, pin_policy, touch_policy, sent, raised, result) ==
    [op |-> op, slot |-> slot, key_type |-> key_type,
     pin_policy |-> pin_policy, touch_policy |-> touch_policy, sent |-> sent,
     raised |-> raised, result |-> result]

\* _parse_device_public_key(key_type, encoded): the fields of the public key
\* read from the dict.  The key object itself is built by the cryptography
\* package, which refuses some numbers and points: accepted is its verdict.
_parse_device_public_key(key_type, encoded, accepted) ==
    LET data == parse_dict(encoded)
        NoKey == [modulus |-> <<>>, exponent |-> <<>>, point |-> <<>>]
    IN  IF data.raised # "" THEN [raised |-> "ValueError", key |-> NoKey]
        ELSE IF algorithm(key_type) = "RSA"
        THEN IF ~Has(data.list, \H81) \/ ~Has(data.list, \H82)
             THEN [raised |-> "KeyError", key |-> NoKey]
             ELSE IF ~accepted THEN [raised |-> "ValueError", key |-> NoKey]
             ELSE [raised |-> "",
                   key |-> [modulus |-> Get(data.list, \H81, <<>>),
                            exponent |-> Get(data.list, \H82, <<>>),
                            point |-> <<>>]]
        ELSE IF ~Has(data.list, \H86)
             THEN [raised |-> "KeyError", key |-> NoKey]
             ELSE IF ~accepted THEN [raised |-> "ValueError", key |-> NoKey]
             ELSE [raised |-> "",
                   key |-> [modulus |-> <<>>, exponent |-> <<>>,
                            point |-> Get(data.list, \H86, <<>>)]]

NoPublicKey == [modulus |-> <<>>, exponent |-> <<>>, point |-> <<>>]

\* generate_key(slot, key_type, pin_policy, touch_policy); the card answers
\* the command with (response, sw).
generate_key(slot, key_type, pin_policy, touch_policy, sw, response, accepted) ==
    LET Ended(kt, sent, raised, key) ==
            keyCall' = KeyCall("generate_key", slot, kt, pin_policy,
                               touch_policy, sent, raised, key)
        support == _check_key_support(version, key_type, pin_policy,
                                      touch_policy)
        data == Tlv(TAG_GEN_ALGORITHM, <<key_type>>).bytes
                    \o PolicyTlvs(pin_policy, touch_policy)
        command == Apdu(0, INS_GENERATE_ASYMMETRIC, 0, slot,
                        Tlv(\HAC, data).bytes)
    IN  IF key_type \notin Members(KEY_TYPE)
        THEN Ended(0, <<>>, "ValueError", NoPublicKey)
        ELSE IF support # "" THEN Ended(key_type, <<>>, support, NoPublicKey)
        ELSE IF algorithm(key_type) = "RSA" /\ TupleGe(version, <<4, 2, 0>>)
                /\ TupleLt(version, <<4, 3, 5>>)
        THEN Ended(key_type, <<>>, "NotSupportedError", NoPublicKey)
        ELSE IF ApduRaises(sw)
        THEN Ended(key_type, <<command>>, "ApduError", NoPublicKey)
        ELSE LET inner == unwrap(\H7F49, response)
                 parsed == _parse_device_public_key(key_type, inner.val,
                                                    accepted)
             IN  IF inner.raised # ""
                 THEN Ended(key_type, <<command>>, "ValueError", NoPublicKey)
                 ELSE Ended(key_type, <<command>>, parsed.raised, parsed.key)

\* put_key(slot, private_key, pin_policy, touch_policy); the card answers
\* the command with sw.  The private numbers of a key fit their fields.
put_key(slot, private_key, pin_policy, touch_policy, sw) ==
    LET Ended(kt, sent, raised) ==
            keyCall' = KeyCall("put_key", slot, kt, pin_policy, touch_policy,
                               sent, raised, NoPublicKey)
        key_type == from_public_key(private_key)
        support == _check_key_support(version, key_type.val, pin_policy,
                                      touch_policy)
        ln == bit_len(key_type.val) \div 8
        numbers == private_key.numbers
        key_data ==
            IF algorithm(key_type.val) = "RSA"
            THEN Tlv(\H01, int_to_bytes(numbers[1], ln \div 2)).bytes
                     \o Tlv(\H02, int_to_bytes(numbers[2], ln \div 2)).bytes
                     \o Tlv(\H03, int_to_bytes(numbers[3], ln \div 2)).bytes
                     \o Tlv(\H04, int_to_bytes(numbers[4], ln \div 2)).bytes
                     \o Tlv(\H05, int_to_bytes(numbers[5], ln \div 2)).bytes
            ELSE Tlv(\H06, int_to_bytes(numbers[1], ln)).bytes
        command == Apdu(0, INS_IMPORT_KEY, key_type.val, slot,
                        key_data \o PolicyTlvs(pin_policy, touch_policy))
    IN  IF key_type.raised # "" THEN Ended(0, <<>>, key_type.raised)
        ELSE IF support # "" THEN Ended(key_type.val, <<>>, support)
        ELSE IF algorithm(key_type.val) = "RSA" /\ private_key.e # 65537
        THEN Ended(key_type.val, <<>>, "ValueError")
        ELSE IF ApduRaises(sw)
        THEN Ended(key_type.val, <<command>>, "ApduError")
        ELSE Ended(key_type.val, <<command>>, "")

\* The inputs: firmware on both sides of every version the checks name.
KeyVersions ==
    {<<3, 1, 1>>, <<4, 0, 0>>, <<4, 1, 9>>, <<4, 2, 0>>, <<4, 3, 0>>,
     <<4, 3, 4>>, <<4, 3, 5>>, <<4, 4, 0>>, <<4, 4, 1>>, <<4, 5, 0>>,
     <<5, 1, 0>>}
KeyTypeArgs == Members(KEY_TYPE) \cup {\H99}
Magnitude(n, b) == [i \in 1..n |-> IF i = 1 THEN b ELSE (i * 5) % 256]
RsaNumbers(n) ==
    <<Magnitude(n, \HC1), Magnitude(n, \HD3), Magnitude(n - 1, \H11),
      Magnitude(n, \H25), Magnitude(n - 2, \H37)>>
PrivateKeys ==
    {PrivateKey("RSA", 1024, "", 65537, RsaNumbers(64)),
     PrivateKey("RSA", 2048, "", 65537, RsaNumbers(128)),
     PrivateKey("RSA", 2048, "", 3, RsaNumbers(128)),
     PrivateKey("RSA", 4096, "", 65537, RsaNumbers(256)),
     PrivateKey("EC", 0, "secp256r1", 0, <<Magnitude(32, \H7F)>>),
     PrivateKey("EC", 0, "secp384r1", 0, <<Magnitude(47, \H01)>>),
     PrivateKey("EC", 0, "secp521r1", 0, <<Magnitude(66, \H01)>>)}
KeySlots == {SLOT.RETIRED1}
PinPolicies == {PIN_POLICY.DEFAULT, PIN_POLICY.ONCE}
TouchPolicies == {TOUCH_POLICY.DEFAULT, TOUCH_POLICY.ALWAYS, TOUCH_POLICY.CACHED}
KeyStatusWords == {SW.OK, SW.SECURITY_CONDITION_NOT_SATISFIED}
GenerateResponses ==
    {Tlv(\H7F49, Tlv(\H81, Magnitude(128, \HC5)).bytes
                     \o Tlv(\H82, <<1, 0, 1>>).bytes).bytes,
     Tlv(\H7F49, Tlv(\H86, <<4>> \o Magnitude(64, \H6B)).bytes).bytes,
     <<>>}

\* A PivSession on any firmware, no key call made yet.
KeyInit ==
    /\ version \in KeyVersions
    /\ _current_pin_retries = 3
    /\ _max_pin_retries = 3
    /\ pivCall = PivCall("__init__", 0, <<>>, SW.OK, "", None, 3)
    /\ keyCall = KeyCall("__init__", 0, 0, 0, 0, <<>>, "", NoPublicKey)

KeyIdle == keyCall = KeyCall("__init__", 0, 0, 0, 0, <<>>, "", NoPublicKey)

KeyNext ==
    \/ \E slot \in KeySlots, key_type \in KeyTypeArgs,
          pin_policy \in PinPolicies, touch_policy \in TouchPolicies,
          sw \in KeyStatusWords, response \in GenerateResponses,
          accepted \in BOOLEAN :
           generate_key(slot, key_type, pin_policy, touch_policy, sw,
                        response, accepted)
               /\ UNCHANGED notKey
    \/ \E slot \in KeySlots, private_key \in PrivateKeys,
          pin_policy \in PinPolicies, touch_policy \in TouchPolicies,
          sw \in KeyStatusWords :
           put_key(slot, private_key, pin_policy, touch_policy, sw)
               /\ UNCHANGED notKey

(***************************************************************************)
(* OATH: credential ids and codes                                          *)
(***************************************************************************)
TAG_NAME == 113     \* 0x71
TAG_CHALLENGE == 116     \* 0x74
TAG_RESPONSE == 117     \* 0x75
TAG_TRUNCATED == 118     \* 0x76
TAG_HOTP == 119     \* 0x77
TAG_TOUCH == 124     \* 0x7C
INS_CALCULATE == 162     \* 0xA2
INS_CALCULATE_ALL == 164     \* 0xA4
OATH_TYPE == [HOTP |-> \H10, TOTP |-> \H20]
DEFAULT_PERIOD == 30

\* Text is a sequence of one-character strings.  The characters the id
\* syntax gives a meaning, by their ASCII codes.
Digits == <<"0", "1", "2", "3", "4", "5", "6", "7", "8", "9">>
IsDigit(ch) == \E d \in 1..10 : Digits[d] = ch
DigitValue(ch) == (CHOOSE d \in 1..10 : Digits[d] = ch) - 1
Chr(b) ==
    IF b \in 48..57 THEN Digits[b - 47]
    ELSE IF b = 47 THEN "/"
    ELSE IF b = 58 THEN ":"
    ELSE IF b = 32 THEN " "
    ELSE IF b = 45 THEN "-"
    ELSE IF b \in 65..90
    THEN <<"A", "B", "C", "D", "E", "F", "G", "H", "I", "J", "K", "L", "M",
           "N", "O", "P", "Q", "R", "S", "T", "U", "V", "W", "X", "Y",
           "Z">>[b - 64]
    ELSE IF b \in 97..122
    THEN <<"a", "b", "c", "d", "e", "f", "g", "h", "i", "j", "k", "l", "m",
           "n", "o", "p", "q", "r", "s", "t", "u", "v", "w", "x", "y",
           "z">>[b - 96]
    ELSE "?"

\* bytes.decode(): the text of UTF-8 bytes.  An ASCII byte is its character;
\* a byte from 0xF8 up occurs in no UTF-8 text.  The ids of this model hold
\* no other bytes.
decode(b) ==
    IF \E i \in 1..Len(b) : b[i] >= \HF8
    THEN [raised |-> "UnicodeDecodeError", val |-> <<>>]
    ELSE [raised |-> "", val |-> [i \in 1..Len(b) |-> Chr(b[i])]]

\* int(s) for a text of decimal digits, and str(n)
RECURSIVE int(_)
int(s) ==
    IF Len(s) = 0 THEN 0
    ELSE int(SubSeq(s, 1, Len(s) - 1)) * 10 + DigitValue(s[Len(s)])
RECURSIVE str(_)
str(n) ==
    IF n < 0 THEN <<"-">> \o str(0 - n)
    ELSE IF n < 10 THEN <<Digits[n + 1]>>
    ELSE Append(str(n \div 10), Digits[(n % 10) + 1])

\* The number of leading digits of s, and the place of its first ":" (0 for
\* none).
RECURSIVE LeadingDigits(_)
LeadingDigits(s) ==
    IF Len(s) = 0 \/ ~IsDigit(s[1]) THEN 0 ELSE 1 + LeadingDigits(Tail(s))
FirstColon(s) ==
    IF \E i \in 1..Len(s) : s[i] = ":"
    THEN CHOOSE i \in 1..Len(s) : s[i] = ":" /\ \A j \in 1..(i - 1) : s[j] # ":"
    ELSE 0

\* TOTP_ID_PATTERN.match(data), the pattern ^((\d+)/)?(([^:]+):)?(.+)$: the
\* groups 2, 4 and 5 of the match the backtracking search finds first.  The
\* period prefix is taken when digits and "/" start the text and text
\* follows; the issuer is taken when the rest has a ":" after its first
\* character and text follows that ":".
TotpIdMatch(data) ==
    LET n == LeadingDigits(data)
        prefixed == n > 0 /\ Len(data) > n + 1 /\ data[n + 1] = "/"
        rest == IF prefixed THEN SubSeq(data, n + 2, Len(data)) ELSE data
        c == FirstColon(rest)
        hasIssuer == c > 1 /\ Len(rest) > c
    IN  [matched |-> Len(data) > 0,
         group2 |-> IF prefixed THEN Some(SubSeq(data, 1, n)) ELSE None,
         group4 |-> IF hasIssuer THEN Some(SubSeq(rest, 1, c - 1)) ELSE None,
         group5 |-> IF hasIssuer THEN SubSeq(rest, c + 1, Len(rest)) ELSE rest]

\* _parse_cred_id(cred_id, oath_type): (issuer, name, period)
_parse_cred_id(cred_id, oath_type) ==
    LET data == decode(cred_id)
        match == TotpIdMatch(data.val)
        c == FirstColon(data.val)
        Parsed(issuer, name, period) ==
            [raised |-> "", issuer |-> issuer, name |-> name,
             period |-> period]
    IN  IF data.raised # ""
        THEN [raised |-> data.raised, issuer |-> None, name |-> <<>>,
              period |-> None]
        ELSE IF oath_type = OATH_TYPE.TOTP
        THEN IF match.matched
             THEN Parsed(match.group4, match.group5,
                         IF match.group2 # None /\ Len(match.group2[1]) > 0
                         THEN Some(int(match.group2[1]))
                         ELSE Some(DEFAULT_PERIOD))
             ELSE Parsed(None, data.val, Some(DEFAULT_PERIOD))
        ELSE IF c > 0
        THEN Parsed(Some(SubSeq(data.val, 1, c - 1)),
                    SubSeq(data.val, c + 1, Len(data.val)), None)
        ELSE Parsed(None, data.val, None)

\* _get_challenge computing the time step with the default period.
Mutant_get_challenge(timestamp, period) ==
    IF period = 0 THEN [raised |-> "ZeroDivisionError", val |-> <<>>]
    ELSE [raised |-> "",
          val |-> rjust(BigEndian(timestamp \div DEFAULT_PERIOD), 8, 0)]

\* _get_challenge(timestamp, period): struct.pack(">q", timestamp // period),
\* for the timestamps of this model, which are not negative.
_get_challenge(timestamp, period) ==
    IF period = 0 THEN [raised |-> "ZeroDivisionError", val |-> <<>>]
    ELSE [raised |-> "", val |-> rjust(BigEndian(timestamp \div period), 8, 0)]

\* bytes2int(data) & 0x7FFFFFFF, computed on the bytes: the low 31 bits are
\* those of the last four bytes without the top bit of the first of them.
Low31(data) ==
    LET last4 == PySliceFrom(data, -4)
    IN  IF Len(last4) = 4
        THEN bytes2int(<<last4[1] % 128>> \o Tail(last4))
        ELSE bytes2int(last4)

\* Code(value, valid_from, valid_to); valid_to is None for float("Inf").
Code(value, valid_from, valid_to) ==
    [value |-> value, valid_from |-> valid_from, valid_to |-> valid_to]
NoCode == Code(<<>>, 0, None)

\* _format_code cutting the decimal text to its last digits.
Mutant_format_code(credential, timestamp, truncated) ==
    LET period == credential.period[1]
        time_step == timestamp \div period
        value == rjust(str(Low31(Tail(truncated)) % 1000000), truncated[1], "0")
    IN  IF credential.oath_type = OATH_TYPE.TOTP /\ period = 0
        THEN [raised |-> "ZeroDivisionError", code |-> NoCode]
        ELSE IF Len(truncated) = 0
        THEN [raised |-> "IndexError", code |-> NoCode]
        ELSE IF credential.oath_type = OATH_TYPE.TOTP
        THEN [raised |-> "",
              code |-> Code(value, time_step * period,
                            Some((time_step + 1) * period))]
        ELSE [raised |-> "", code |-> Code(value, timestamp, None)]

\* _format_code(credential, timestamp, truncated)
_format_code(credential, timestamp, truncated) ==
    LET period == credential.period[1]
        time_step == timestamp \div period
        value == rjust(str(Low31(Tail(truncated))), truncated[1], "0")
    IN  IF credential.oath_type = OATH_TYPE.TOTP /\ period = 0
        THEN [raised |-> "ZeroDivisionError", code |-> NoCode]
        ELSE IF Len(truncated) = 0
        THEN [raised |-> "IndexError", code |-> NoCode]
        ELSE IF credential.oath_type = OATH_TYPE.TOTP
        THEN [raised |-> "",
              code |-> Code(value, time_step * period,
                            Some((time_step + 1) * period))]
        ELSE [raised |-> "", code |-> Code(value, timestamp, None)]

\* Credential(device_id, id, issuer, name, oath_type, period, touch_required)
Credential(device_id, id, issuer, name, oath_type, period, touch_required) ==
    [device_id |-> device_id, id |-> id, issuer |-> issuer, name |-> name,
     oath_type |-> oath_type, period |-> period,
     touch_required |-> touch_required]
\* Credential.__eq__
CredentialEq(a, b) == a.device_id = b.device_id /\ a.id = b.id
NoCredential == Credential("", <<>>, None, <<>>, 0, None, FALSE)

\* entries[credential] = code on a dict kept in insertion order
Put(entries, credential, code) ==
    IF \E i \in 1..Len(entries) : CredentialEq(entries[i].credential, credential)
    THEN [i \in 1..Len(entries) |->
             IF CredentialEq(entries[i].credential, credential)
             THEN [credential |-> entries[i].credential, code |-> code]
             ELSE entries[i]]
    ELSE Append(entries, [credential |-> credential, code |-> code])

(***************************************************************************)
(* OATH: calculate_all and calculate_code                                  *)
(***************************************************************************)
\* OathSession.info.device_id
DeviceId == "device"

\* int(timestamp or time()) for an Optional[int] timestamp
TimestampOr(timestamp, now) ==
    IF timestamp = None \/ timestamp[1] = 0 THEN now ELSE timestamp[1]

\* The command APDU of calculate_all and that of calculate_code.
CalculateAllCommand(challenge) ==
    Apdu(0, INS_CALCULATE_ALL, 0, 1, Tlv(TAG_CHALLENGE, challenge).bytes)
CalculateCommand(credential, challenge) ==
    Apdu(0, INS_CALCULATE, 0, 1,
         Tlv(TAG_NAME, credential.id).bytes
             \o Tlv(TAG_CHALLENGE, challenge).bytes)

\* The while loop of calculate_all from its top, up to the point where it
\* ends (the entries are returned, or an exception leaves the call) or
\* where calculate_code is about to run for a credential.
LoopState(status, raised, data, entries, pending) ==
    [status |-> status, raised |-> raised, data |-> data,
     entries |-> entries, pending |-> pending]
RECURSIVE Loop(_, _, _)
Loop(data, entries, timestamp) ==
    IF Len(data) = 0
    THEN LoopState("return", "", <<>>, entries, NoCredential)
    ELSE LET cred_id == unwrap(TAG_NAME, data[1].bytes)
             tlv == data[2]
             resp_tag == TlvTagOf(tlv)
             oath_type == IF resp_tag = <<TAG_HOTP>> THEN OATH_TYPE.HOTP
                          ELSE OATH_TYPE.TOTP
             touch == resp_tag = <<TAG_TOUCH>>
             parsed == _parse_cred_id(cred_id.val, oath_type)
             credential == Credential(DeviceId, cred_id.val, parsed.issuer,
                                      parsed.name, oath_type, parsed.period,
                                      touch)
             rest == SubSeq(data, 3, Len(data))
             formatted == _format_code(credential, timestamp, TlvValueOf(tlv))
             Raise(exc) == LoopState("raise", exc, data, entries, NoCredential)
         IN  IF cred_id.raised # "" THEN Raise("ValueError")
             ELSE IF Len(data) < 2 THEN Raise("IndexError")
             ELSE IF parsed.raised # "" THEN Raise(parsed.raised)
             ELSE IF oath_type = OATH_TYPE.TOTP
                     /\ parsed.period # Some(DEFAULT_PERIOD)
             THEN LoopState("calculate_code", "", rest, entries, credential)
             ELSE IF oath_type = OATH_TYPE.TOTP
                     /\ resp_tag = <<TAG_TRUNCATED>>
             THEN IF formatted.raised # "" THEN Raise(formatted.raised)
                  ELSE Loop(rest, Put(entries, credential,
                                      Some(formatted.code)), timestamp)
             ELSE Loop(rest, Put(entries, credential, None), timestamp)

\* The call goes on from the state the loop reached.  Where calculate_code
\* runs, it checks the device id, takes int(timestamp or time()) and the
\* challenge of the credential's period, and sends its command.
OathContinue(s, now) ==
    LET t == TimestampOr(Some(oathTimestamp), now)
        challenge == _get_challenge(t, s.pending.period[1])
    IN  /\ oathEntries' = s.entries
        /\ IF s.status = "return"
           THEN /\ oathPc' = "done"
                /\ oathRaised' = ""
                /\ oathData' = <<>>
                /\ oathPending' = None
                /\ UNCHANGED oathSent
           ELSE IF s.status = "raise"
           THEN /\ oathPc' = "done"
                /\ oathRaised' = s.raised
                /\ oathData' = s.data
                /\ oathPending' = None
                /\ UNCHANGED oathSent
           ELSE IF s.pending.device_id # DeviceId
           THEN /\ oathPc' = "done"
                /\ oathRaised' = "ValueError"
                /\ oathData' = s.data
                /\ oathPending' = None
                /\ UNCHANGED oathSent
           ELSE IF challenge.raised # ""
           THEN /\ oathPc' = "done"
                /\ oathRaised' = challenge.raised
                /\ oathData' = s.data
                /\ oathPending' = None
                /\ UNCHANGED oathSent
           ELSE /\ oathPc' = "calculate_sent"
                /\ oathRaised' = ""
                /\ oathData' = s.data
                /\ oathPending' = Some([credential |-> s.pending,
                                        timestamp |-> t])
                /\ oathSent' = Append(oathSent,
                                      CalculateCommand(s.pending, challenge.val))

OathRaise(exc) ==
    /\ oathPc' = "done"
    /\ oathRaised' = exc
    /\ oathPending' = None
    /\ UNCHANGED <<oathSent, oathData, oathEntries>>

\* calculate_all(timestamp) up to its send_apdu; time() returns now.
calculate_all(timestamp, now) ==
    /\ oathPc \in {"ready", "done"}
    /\ oathPc' = "batch_sent"
    /\ oathTimestamp' = TimestampOr(timestamp, now)
    /\ oathSent' = <<CalculateAllCommand(
                       _get_challenge(TimestampOr(timestamp, now),
                                      DEFAULT_PERIOD).val)>>
    /\ oathRecv' = <<>>
    /\ oathData' = <<>>
    /\ oathEntries' = <<>>
    /\ oathPending' = None
    /\ oathRaised' = ""

\* The device answers CALCULATE ALL with (response, sw); the call runs on to
\* its end or to the send_apdu of the first calculate_code.
OathBatchAnswer(response, sw, now) ==
    /\ oathPc = "batch_sent"
    /\ UNCHANGED oathTimestamp
    /\ IF ApduRaises(sw) THEN OathRaise("ApduError") /\ UNCHANGED oathRecv
       ELSE /\ oathRecv' = Append(oathRecv, response)
            /\ LET data == parse_list(response)
               IN  IF data.raised # "" THEN OathRaise("ValueError")
                   ELSE OathContinue(Loop(data.list, <<>>, oathTimestamp), now)

\* The device answers CALCULATE with (response, sw); calculate_code returns
\* its Code and the call runs on to its end or to the next calculate_code.
OathCalculateAnswer(response, sw, now) ==
    /\ oathPc = "calculate_sent"
    /\ UNCHANGED oathTimestamp
    /\ IF ApduRaises(sw) THEN OathRaise("ApduError") /\ UNCHANGED oathRecv
       ELSE /\ oathRecv' = Append(oathRecv, response)
            /\ LET truncated == unwrap(TAG_TRUNCATED, response)
                   pending == oathPending[1]
                   formatted == _format_code(pending.credential,
                                             pending.timestamp, truncated.val)
               IN  IF truncated.raised # "" THEN OathRaise("ValueError")
                   ELSE IF formatted.raised # ""
                   THEN OathRaise(formatted.raised)
                   ELSE OathContinue(
                            Loop(oathData,
                                 Put(oathEntries, pending.credential,
                                     Some(formatted.code)),
                                 oathTimestamp), now)

\* The inputs.  An id is the UTF-8 text of a credential name as put on the
\* device: a name, with or without issuer, with or without a period prefix.
Ascii(text) ==
    [i \in 1..Len(text) |->
        CHOOSE b \in {32, 47, 58} \cup (48..57) \cup (97..122) :
            Chr(b) = text[i]]
BatchValue == <<6, \H00, \H12, \HD6, \H87>>
\* (id, response tag, response value) of one credential in a batch response
BatchEntries ==
    {<<Ascii(<<"a">>), TAG_TRUNCATED, BatchValue>>,
     <<Ascii(<<"6", "0", "/", "b">>), TAG_TRUNCATED, BatchValue>>,
     <<Ascii(<<"1", "5", "/", "i", ":", "c">>), TAG_TOUCH, <<6>>>>,
     <<Ascii(<<"i", ":", "d">>), TAG_TOUCH, <<6>>>>,
     <<Ascii(<<"3", "0", "/", "e">>), TAG_TRUNCATED, <<8, \H80, 0, \H30, \H39>>>>,
     <<Ascii(<<"6", "0", "/", "h">>), TAG_HOTP, <<6>>>>,
     <<Ascii(<<"0", "/", "z">>), TAG_TRUNCATED, BatchValue>>,
     <<Ascii(<<"r">>), TAG_RESPONSE, <<6, 1, 2, 3, 4>>>>}
EntryBytes(e) == Tlv(TAG_NAME, e[1]).bytes \o Tlv(e[2], e[3]).bytes
MaxCreds == 2
\* The batches of up to MaxCreds credentials; the ids on a device differ.
RECURSIVE BatchesOf(_)
BatchesOf(n) ==
    IF n = 0 THEN {<<>>}
    ELSE LET shorter == BatchesOf(n - 1)
         IN  shorter \cup
                 {Append(b, e) : b \in {x \in shorter : Len(x) = n - 1},
                                 e \in BatchEntries}
DistinctIds(b) ==
    \A i, j \in 1..Len(b) : i # j => b[i][1] # b[j][1]
RECURSIVE Flatten(_)
Flatten(b) == IF Len(b) = 0 THEN <<>> ELSE EntryBytes(b[1]) \o Flatten(Tail(b))
BatchResponses ==
    {Flatten(b) : b \in {x \in BatchesOf(MaxCreds) : DistinctIds(x)}}
        \cup {Tlv(TAG_NAME, Ascii(<<"a">>)).bytes,
              Tlv(TAG_TRUNCATED, BatchValue).bytes,
              Tlv(TAG_NAME, <<\HFF>>).bytes \o Tlv(TAG_TRUNCATED, BatchValue).bytes,
              <<TAG_NAME>>}
CalculateResponses ==
    {Tlv(TAG_TRUNCATED, <<6, \H00, \H00, \H30, \H39>>).bytes,
     Tlv(TAG_TRUNCATED, <<8, \H3B, \H9A, \HCA, \H07>>).bytes,
     Tlv(TAG_RESPONSE, <<6, 1, 2, 3, 4>>).bytes}
OathStatusWords == {SW.OK, SW.SECURITY_CONDITION_NOT_SATISFIED}
Timestamps == {None, Some(0), Some(1600000030)}
Clock == {100, 1600000000}

OathIdle ==
    /\ oathPc = "ready"
    /\ oathTimestamp = 0
    /\ oathSent = <<>>
    /\ oathRecv = <<>>
    /\ oathData = <<>>
    /\ oathEntries = <<>>
    /\ oathPending = None
    /\ oathRaised = ""

OathNext ==
    \/ \E timestamp \in Timestamps, now \in Clock :
           calculate_all(timestamp, now) /\ UNCHANGED notOath
    \/ \E response \in BatchResponses, sw \in OathStatusWords, now \in Clock :
           OathBatchAnswer(response, sw, now) /\ UNCHANGED notOath
    \/ \E response \in CalculateResponses, sw \in OathStatusWords,
          now \in Clock :
           OathCalculateAnswer(response, sw, now) /\ UNCHANGED notOath

(***************************************************************************)
(* OATH: the password lock (select, reset, validate, set_key, unset_key)   *)
(***************************************************************************)
TAG_KEY == 115         \* 0x73
TAG_VERSION == 121     \* 0x79
INS_SET_CODE == 3      \* 0x03
OATH_INS_RESET == 4    \* INS_RESET = 0x04 of yubikit.oath
INS_VALIDATE == 163    \* 0xA3
HASH_ALGORITHM == [SHA1 |-> \H01, SHA256 |-> \H02, SHA512 |-> \H03]

\* The sum of the bytes of a byte string.
RECURSIVE SumRange(_, _, _)
SumRange(b, lo, hi) ==
    IF lo > hi THEN 0
    ELSE IF lo = hi THEN b[lo]
    ELSE SumRange(b, lo, (lo + hi) \div 2)
             + SumRange(b, (lo + hi) \div 2 + 1, hi)
ByteSum(b) == SumRange(b, 1, Len(b))

\* _hmac_sha1(key, message): a 20-byte digest that depends on the key and on
\* the message.  The digest function stands in for HMAC-SHA1: what the session
\* relies on is that it is a function of both arguments.
_hmac_sha1(key, message) ==
    [i \in 1..20 |->
        (i + 7 * ByteSum(key) + 13 * ByteSum(message) + Len(message)) % 256]

\* _parse_select(response): the version and the name are required, the
\* challenge is optional (data.get).
_parse_select(response) ==
    LET data == parse_dict(response)
        Raise(exc) == [raised |-> exc, version |-> <<>>, salt |-> None,
                       challenge |-> None]
    IN  IF data.raised # "" THEN Raise("ValueError")
        ELSE IF ~Has(data.list, TAG_VERSION) THEN Raise("KeyError")
        ELSE IF Len(Get(data.list, TAG_VERSION, <<>>)) # 3
        THEN Raise("TypeError")
        ELSE IF ~Has(data.list, TAG_NAME) THEN Raise("KeyError")
        ELSE [raised |-> "",
              version |-> Get(data.list, TAG_VERSION, <<>>),
              salt |-> Some(Get(data.list, TAG_NAME, <<>>)),
              challenge |-> IF Has(data.list, TAG_CHALLENGE)
                            THEN Some(Get(data.list, TAG_CHALLENGE, <<>>))
                            ELSE None]

\* OathSession.locked
locked == _challenge # None

LockCall(op, key, sent, select, raised, before) ==
    [op |-> op, key |-> key, sent |-> sent, select |-> select,
     raised |-> raised, before |-> before]

\* OathSession(connection), where SELECT answered select_response.
OathSession__init__(select_response) ==
    /\ _parse_select(select_response).raised = ""
    /\ _challenge = _parse_select(select_response).challenge
    /\ lockCall = LockCall("__init__", <<>>, <<>>, Some(select_response), "",
                           None)

\* OathSession.reset(), where the device answers the RESET command with sw
\* and the SELECT that follows with (select_response, select_sw).
reset(sw, select_response, select_sw) ==
    LET command == Apdu(0, OATH_INS_RESET, \HDE, \HAD, <<>>)
        parsed == _parse_select(select_response)
        Done(select, raised) ==
            lockCall' = LockCall("reset", <<>>, <<command>>, select, raised,
                                 _challenge)
    IN  IF ApduRaises(sw)
        THEN Done(None, "ApduError") /\ UNCHANGED _challenge
        ELSE IF ApduRaises(select_sw)
        THEN Done(None, "ApduError") /\ UNCHANGED _challenge
        ELSE IF parsed.raised # ""
        THEN Done(Some(select_response), parsed.raised) /\ UNCHANGED _challenge
        ELSE Done(Some(select_response), "") /\ _challenge' = parsed.challenge

\* A variant of validate that does not compare the device's response.
Mutant_validate(key, challenge, sw, resp) ==
    LET response == _hmac_sha1(key, _challenge[1])
        data == Tlv(TAG_RESPONSE, response).bytes
                    \o Tlv(TAG_CHALLENGE, challenge).bytes
        command == Apdu(0, INS_VALIDATE, 0, 0, data)
        unwrapped == unwrap(TAG_RESPONSE, resp)
        Done(sent, raised) ==
            lockCall' = [op |-> "validate", key |-> key, sent |-> sent,
                         select |-> None, raised |-> raised,
                         before |-> _challenge, challenge |-> challenge,
                         sw |-> sw, resp |-> resp]
    IN  IF _challenge = None
        THEN Done(<<>>, "TypeError") /\ UNCHANGED _challenge
        ELSE IF ApduRaises(sw)
        THEN Done(<<command>>, "ApduError") /\ UNCHANGED _challenge
        ELSE IF unwrapped.raised # ""
        THEN Done(<<command>>, "ValueError") /\ UNCHANGED _challenge
        ELSE Done(<<command>>, "") /\ _challenge' = None

\* OathSession.validate(key), where os.urandom(8) returns challenge and the
\* device answers (resp, sw).
validate(key, challenge, sw, resp) ==
    LET response == _hmac_sha1(key, _challenge[1])
        data == Tlv(TAG_RESPONSE, response).bytes
                    \o Tlv(TAG_CHALLENGE, challenge).bytes
        command == Apdu(0, INS_VALIDATE, 0, 0, data)
        verification == _hmac_sha1(key, challenge)
        unwrapped == unwrap(TAG_RESPONSE, resp)
        Done(sent, raised) ==
            lockCall' = [op |-> "validate", key |-> key, sent |-> sent,
                         select |-> None, raised |-> raised,
                         before |-> _challenge, challenge |-> challenge,
                         sw |-> sw, resp |-> resp]
    IN  IF _challenge = None
        THEN Done(<<>>, "TypeError") /\ UNCHANGED _challenge
        ELSE IF ApduRaises(sw)
        THEN Done(<<command>>, "ApduError") /\ UNCHANGED _challenge
        ELSE IF unwrapped.raised # ""
        THEN Done(<<command>>, "ValueError") /\ UNCHANGED _challenge
        ELSE IF ~bytes_eq(unwrapped.val, verification)
        THEN Done(<<command>>, "BadResponseError") /\ UNCHANGED _challenge
        ELSE Done(<<command>>, "") /\ _challenge' = None

\* OathSession.set_key(key), where os.urandom(8) returns challenge.
set_key(key, challenge, sw) ==
    LET response == _hmac_sha1(key, challenge)
        data == Tlv(TAG_KEY,
                    int2bytes(OATH_TYPE.TOTP + HASH_ALGORITHM.SHA1, 0)
                        \o key).bytes
                    \o Tlv(TAG_CHALLENGE, challenge).bytes
                    \o Tlv(TAG_RESPONSE, response).bytes
    IN  /\ lockCall' = LockCall("set_key", key,
                                <<Apdu(0, INS_SET_CODE, 0, 0, data)>>, None,
                                IF ApduRaises(sw) THEN "ApduError" ELSE "",
                                _challenge)
        /\ UNCHANGED _challenge

\* OathSession.unset_key()
unset_key(sw) ==
    /\ lockCall' = LockCall("unset_key", <<>>,
                            <<Apdu(0, INS_SET_CODE, 0, 0,
                                   Tlv(TAG_KEY, <<>>).bytes)>>, None,
                            IF ApduRaises(sw) THEN "ApduError" ELSE "",
                            _challenge)
    /\ UNCHANGED _challenge

\* The inputs: access keys, host challenges, SELECT responses with and
\* without an unlock challenge, and the device's answers to VALIDATE.
AccessKeys == {[i \in 1..16 |-> i], [i \in 1..16 |-> 2 * i]}
HostChallenges == {[i \in 1..8 |-> 0], [i \in 1..8 |-> 16 * i + 1]}
DeviceChallenges == {<<>>, [i \in 1..8 |-> 3 * i]}
SelectVersion == Tlv(TAG_VERSION, <<5, 2, 4>>).bytes
SelectName == Tlv(TAG_NAME, [i \in 1..8 |-> i]).bytes
SelectResponses ==
    {SelectVersion \o SelectName}
        \cup {SelectVersion \o SelectName \o Tlv(TAG_CHALLENGE, c).bytes :
                 c \in DeviceChallenges}
        \cup {SelectName, SelectVersion,
              Tlv(TAG_VERSION, <<5, 2>>).bytes \o SelectName
                  \o Tlv(TAG_CHALLENGE, [i \in 1..8 |-> 3 * i]).bytes,
              <<TAG_VERSION, 3, 5>>}
ValidateResponses ==
    {Tlv(TAG_RESPONSE, _hmac_sha1(k, c)).bytes :
         k \in AccessKeys, c \in HostChallenges}
        \cup {Tlv(TAG_CHALLENGE, _hmac_sha1(k, c)).bytes :
                 k \in AccessKeys, c \in HostChallenges}
        \cup {<<>>, <<TAG_RESPONSE, 20, 1>>, Tlv(TAG_RESPONSE, <<>>).bytes}
LockStatusWords == {SW.OK, SW.SECURITY_CONDITION_NOT_SATISFIED,
                    SW.INCORRECT_PARAMETERS}

LockInit == \E select_response \in SelectResponses :
                OathSession__init__(select_response)

LockIdle ==
    /\ _challenge = None
    /\ lockCall = LockCall("", <<>>, <<>>, None, "", None)

LockNext ==
    \/ \E sw \in LockStatusWords, select_response \in SelectResponses,
          select_sw \in LockStatusWords :
           reset(sw, select_response, select_sw) /\ UNCHANGED notLock
    \/ \E key \in AccessKeys, challenge \in HostChallenges,
          sw \in LockStatusWords, resp \in ValidateResponses :
           validate(key, challenge, sw, resp) /\ UNCHANGED notLock
    \/ \E key \in AccessKeys, challenge \in HostChallenges,
          sw \in LockStatusWords :
           set_key(key, challenge, sw) /\ UNCHANGED notLock
    \/ \E sw \in LockStatusWords : unset_key(sw) /\ UNCHANGED notLock

(***************************************************************************)
(* The APDU transport: SmartCardProtocol.send_apdu                         *)
(***************************************************************************)
INS_SEND_REMAINING == 165    \* 0xA5, the OATH session's GET-RESPONSE
INS_GET_RESPONSE == \HC0     \* the protocol's own GET-RESPONSE
SHORT_APDU_MAX_CHUNK == \HFF
CLA_CHAINING == \H10
SW1_HAS_MORE_DATA == \H61

\* cla | 0x10 for a class byte
WithChaining(cla) ==
    IF (cla \div CLA_CHAINING) % 2 = 1 THEN cla ELSE cla + CLA_CHAINING

\* One command frame as the connection sees it.
Frame(cla, ins, p1, p2, data, le) ==
    [cla |-> cla, ins |-> ins, p1 |-> p1, p2 |-> p2, data |-> data, le |-> le]

ProtoOut(raised, sw, val) == [raised |-> raised, sw |-> sw, val |-> val]

\* A variant that cuts chunks one byte short of what it drops from the data.
Mutant_NextFrame(call, data) ==
    IF Len(data) > SHORT_APDU_MAX_CHUNK
    THEN Frame(WithChaining(call.cla), call.ins, call.p1, call.p2,
               SliceTo(data, SHORT_APDU_MAX_CHUNK - 1), 0)
    ELSE Frame(call.cla, call.ins, call.p1, call.p2, data, 0)

\* The frame that carries the next part of data for the call: a chunk of 255
\* bytes with the chaining bit while more than 255 bytes remain, the rest
\* without it otherwise.
NextFrame(call, data) ==
    IF Len(data) > SHORT_APDU_MAX_CHUNK
    THEN Frame(WithChaining(call.cla), call.ins, call.p1, call.p2,
               SliceTo(data, SHORT_APDU_MAX_CHUNK), 0)
    ELSE Frame(call.cla, call.ins, call.p1, call.p2, data, 0)

\* The part of the call that hands the next frame to the connection, after
\* the frames of wire.
SendNext(call, data, wire) ==
    /\ protoWire' = Append(wire, NextFrame(call, data))
    /\ IF Len(data) > SHORT_APDU_MAX_CHUNK
       THEN /\ protoData' = SliceFrom(data, SHORT_APDU_MAX_CHUNK)
            /\ protoPc' = "chaining"
       ELSE /\ protoData' = <<>>
            /\ protoPc' = "receiving"

\* send_apdu(cla, ins, p1, p2, data) up to its first exchange.
send_apdu(cla, ins, p1, p2, data) ==
    /\ protoPc \in {"ready", "done"}
    /\ protoCall' = Apdu(cla, ins, p1, p2, data)
    /\ SendNext(Apdu(cla, ins, p1, p2, data), data, <<>>)
    /\ protoRecv' = <<>>
    /\ protoBuf' = <<>>
    /\ protoOut' = ProtoOut("", 0, <<>>)
    /\ UNCHANGED _ins_send_remaining

\* The device answers a chained chunk: the next part is sent, or the call
\* raises the status-word error.
ProtoChainAnswer(response, sw) ==
    /\ protoPc = "chaining"
    /\ protoRecv' = Append(protoRecv, [data |-> response, sw |-> sw])
    /\ IF sw # SW.OK
       THEN /\ protoPc' = "done"
            /\ protoOut' = ProtoOut("ApduError", sw, <<>>)
            /\ UNCHANGED <<protoWire, protoData>>
       ELSE /\ SendNext(protoCall, protoData, protoWire)
            /\ UNCHANGED protoOut
    /\ UNCHANGED <<_ins_send_remaining, protoCall, protoBuf>>

\* A variant that returns what it has on the first 0x61xx.
Mutant_ProtoAnswer(response, sw) ==
    /\ protoPc = "receiving"
    /\ protoRecv' = Append(protoRecv, [data |-> response, sw |-> sw])
    /\ protoBuf' = protoBuf \o response
    /\ protoPc' = "done"
    /\ protoOut' = IF sw = SW.OK \/ sw \div 256 = SW1_HAS_MORE_DATA
                   THEN ProtoOut("", sw, protoBuf \o response)
                   ELSE ProtoOut("ApduError", sw, <<>>)
    /\ UNCHANGED <<_ins_send_remaining, protoCall, protoData, protoWire>>

\* The device answers the final chunk or a GET-RESPONSE: on 0x61LL the
\* payload is kept and GET-RESPONSE is sent for LL bytes, on 0x9000 the
\* payloads are returned, on anything else the call raises.
ProtoAnswer(response, sw) ==
    /\ protoPc = "receiving"
    /\ protoRecv' = Append(protoRecv, [data |-> response, sw |-> sw])
    /\ IF sw \div 256 = SW1_HAS_MORE_DATA
       THEN /\ protoBuf' = protoBuf \o response
            /\ protoWire' = Append(protoWire,
                                   Frame(0, _ins_send_remaining, 0, 0, <<>>,
                                         sw % 256))
            /\ UNCHANGED <<protoPc, protoOut>>
       ELSE IF sw # SW.OK
       THEN /\ protoPc' = "done"
            /\ protoOut' = ProtoOut("ApduError", sw, <<>>)
            /\ UNCHANGED <<protoBuf, protoWire>>
       ELSE /\ protoPc' = "done"
            /\ protoBuf' = protoBuf \o response
            /\ protoOut' = ProtoOut("", sw, protoBuf \o response)
            /\ UNCHANGED protoWire
    /\ UNCHANGED <<_ins_send_remaining, protoCall, protoData>>

\* The inputs: command data up to three chunks long, payload fragments, and
\* status words of the three kinds.  A device has nothing to return before
\* the command is complete: it answers a chained chunk with 0x9000 or with
\* an error.  MaxFragments bounds the 0x61xx answers to one call.
MaxFragments == 2
Payload(n, seed) == [i \in 1..n |-> (i * seed) % 256]
CommandData == {Payload(n, 7) : n \in {0, 10, 255, 256, 300, 510, 511}}
CommandClasses == {0, \H80}
Fragments == {<<>>, Payload(10, 3), Payload(3, 5)}
MoreData == {\H610A, \H6100}
ErrorWords == {SW.SECURITY_CONDITION_NOT_SATISFIED, SW.INCORRECT_PARAMETERS}

ProtoInit ==
    /\ _ins_send_remaining \in {INS_GET_RESPONSE, INS_SEND_REMAINING}
    /\ protoPc = "ready"
    /\ protoCall = Apdu(0, 0, 0, 0, <<>>)
    /\ protoData = <<>>
    /\ protoWire = <<>>
    /\ protoRecv = <<>>
    /\ protoBuf = <<>>
    /\ protoOut = ProtoOut("", 0, <<>>)

ProtoIdle ==
    /\ _ins_send_remaining = INS_GET_RESPONSE
    /\ protoPc = "ready"
    /\ protoCall = Apdu(0, 0, 0, 0, <<>>)
    /\ protoData = <<>>
    /\ protoWire = <<>>
    /\ protoRecv = <<>>
    /\ protoBuf = <<>>
    /\ protoOut = ProtoOut("", 0, <<>>)

ProtoNext ==
    \/ \E cla \in CommandClasses, data \in CommandData :
           send_apdu(cla, INS_VALIDATE, 0, 1, data) /\ UNCHANGED notProto
    \/ \E response \in {<<>>}, sw \in {SW.OK} \cup ErrorWords :
           ProtoChainAnswer(response, sw) /\ UNCHANGED notProto
    \/ \E response \in Fragments, sw \in {SW.OK} \cup MoreData \cup ErrorWords :
           /\ sw \in MoreData
                  => Cardinality({i \in 1..Len(protoRecv) :
                                     protoRecv[i].sw \in MoreData})
                         < MaxFragments
           /\ ProtoAnswer(response, sw)
           /\ UNCHANGED notProto

(***************************************************************************)
(* PIV: reset                                                              *)
(***************************************************************************)
INS_GET_METADATA == 247        \* 0xF7
INS_RESET == 251               \* 0xFB
TAG_METADATA_IS_DEFAULT == 5   \* 0x05
TAG_METADATA_RETRIES == 6      \* 0x06
INDEX_RETRIES_TOTAL == 0
INDEX_RETRIES_REMAINING == 1

\* get_pin_metadata().attempts_remaining for the payload GET METADATA returned.
\* Both entries are looked up (KeyError), then both indexes are read
\* (IndexError).
get_pin_metadata(response) ==
    LET data == parse_dict(response)
        attempts == Get(data.list, TAG_METADATA_RETRIES, <<>>)
        Raise(exc) == [raised |-> exc, attempts_remaining |-> 0]
    IN  IF data.raised # "" THEN Raise("ValueError")
        ELSE IF ~Has(data.list, TAG_METADATA_RETRIES) THEN Raise("KeyError")
        ELSE IF ~Has(data.list, TAG_METADATA_IS_DEFAULT) THEN Raise("KeyError")
        ELSE IF Len(attempts) <= INDEX_RETRIES_REMAINING THEN Raise("IndexError")
        ELSE [raised |-> "",
              attempts_remaining |-> attempts[INDEX_RETRIES_REMAINING + 1]]

\* The commands of reset: the empty VERIFY of get_pin_attempts, GET METADATA
\* for the PIN, verify_pin(""), _change_reference(INS_RESET_RETRY, PIN_P2,
\* "", "") and RESET.
VerifyEmpty == Apdu(0, INS_VERIFY, 0, PIN_P2, <<>>)
GetPinMetadata == Apdu(0, INS_GET_METADATA, 0, PIN_P2, <<>>)
VerifyBlank == Apdu(0, INS_VERIFY, 0, PIN_P2, _pin_bytes(<<>>).val)
ResetRetryBlank ==
    Apdu(0, INS_RESET_RETRY, 0, PIN_P2,
         _pin_bytes(<<>>).val \o _pin_bytes(<<>>).val)
ResetCommand == Apdu(0, INS_RESET, 0, 0, <<>>)

\* One step of the call: the retry cache, where the call goes on, its
\* counter, and the command it sends next.
ResetStep(current, max, pc, counter, command) ==
    /\ _current_pin_retries' = current
    /\ _max_pin_retries' = max
    /\ resetPc' = pc
    /\ resetCounter' = counter
    /\ resetSent' = Append(resetSent, command)
    /\ resetRaised' = ""

\* The call ends with an exception.
ResetRaise(current, exc) ==
    /\ _current_pin_retries' = current
    /\ resetPc' = "done"
    /\ resetRaised' = exc
    /\ UNCHANGED <<_max_pin_retries, resetCounter, resetSent>>

\* Reset's first loop going on whatever the counter is.
Mutant_BlockPin(current, counter) ==
    ResetStep(current, _max_pin_retries, "block_pin", counter, VerifyBlank)

\* "while counter > 0: verify_pin('')" from its test, and "counter = 1" with
\* the first pass of the second loop when the first has ended.
BlockPin(current, counter) ==
    IF counter > 0
    THEN ResetStep(current, _max_pin_retries, "block_pin", counter,
                   VerifyBlank)
    ELSE ResetStep(current, _max_pin_retries, "block_puk", 1, ResetRetryBlank)

\* "while counter > 0: _change_reference(...)" from its test, and the RESET
\* command when the loop has ended.
BlockPuk(current, counter) ==
    IF counter > 0
    THEN ResetStep(current, _max_pin_retries, "block_puk", counter,
                   ResetRetryBlank)
    ELSE ResetStep(current, _max_pin_retries, "reset", counter, ResetCommand)

\* PivSession.reset() up to its first exchange: get_pin_attempts asks for the
\* PIN metadata on firmware 5.3.0 and later and sends an empty VERIFY before.
reset_piv ==
    /\ resetPc \in {"idle", "done"}
    /\ resetPc' = "get_pin_attempts"
    /\ resetCounter' = 0
    /\ resetSent' = <<IF TupleGe(version, <<5, 3, 0>>) THEN GetPinMetadata
                      ELSE VerifyEmpty>>
    /\ resetRecv' = <<>>
    /\ resetRaised' = ""
    /\ pivCall' = PivCall("reset", 0, <<>>, SW.OK, "", None,
                          _current_pin_retries)
    /\ UNCHANGED <<version, _current_pin_retries, _max_pin_retries>>

\* The device answers the command that is out, and the call goes on to its
\* next command or to its end.
ResetAnswer(response, sw) ==
    LET retries == _retries_from_sw(version, sw)
        metadata == get_pin_metadata(response)
    IN  /\ resetPc \in {"get_pin_attempts", "block_pin", "block_puk", "reset"}
        /\ resetRecv' = Append(resetRecv, [data |-> response, sw |-> sw])
        /\ UNCHANGED <<version, pivCall>>
        /\ IF resetPc = "get_pin_attempts" /\ TupleGe(version, <<5, 3, 0>>)
           THEN IF ApduRaises(sw)
                THEN ResetRaise(_current_pin_retries, "ApduError")
                ELSE IF metadata.raised # ""
                THEN ResetRaise(_current_pin_retries, metadata.raised)
                ELSE BlockPin(_current_pin_retries,
                              metadata.attempts_remaining)
           ELSE IF resetPc = "get_pin_attempts"
           THEN IF ~ApduRaises(sw)
                THEN BlockPin(_current_pin_retries, _current_pin_retries)
                ELSE IF retries = None
                THEN ResetRaise(_current_pin_retries, "ApduError")
                ELSE BlockPin(retries[1], retries[1])
           ELSE IF resetPc = "block_pin"
           THEN IF ~ApduRaises(sw)
                THEN BlockPin(_max_pin_retries, resetCounter)
                ELSE IF retries = None
                THEN ResetRaise(_current_pin_retries, "ApduError")
                ELSE BlockPin(retries[1], retries[1])
           ELSE IF resetPc = "block_puk"
           THEN IF ~ApduRaises(sw)
                THEN BlockPuk(_current_pin_retries, resetCounter)
                ELSE IF retries = None
                THEN ResetRaise(_current_pin_retries, "ApduError")
                ELSE BlockPuk(retries[1], retries[1])
           ELSE IF ApduRaises(sw)
                THEN ResetRaise(_current_pin_retries, "ApduError")
                ELSE /\ _current_pin_retries' = 3
                     /\ _max_pin_retries' = 3
                     /\ resetPc' = "done"
                     /\ resetRaised' = ""
                     /\ UNCHANGED <<resetCounter, resetSent>>

\* The inputs: firmware before 1.0.4, before 5.3.0 and after; what a device
\* may answer; the calls made on the session before reset.  MaxResetApdus
\* bounds the commands of one reset call.
MaxResetApdus == 5
ResetVersions == {<<1, 0, 3>>, <<5, 2, 7>>, <<5, 4, 3>>}
ResetStatusWords ==
    {SW.OK, SW.AUTH_METHOD_BLOCKED, \H63C1,
     SW.SECURITY_CONDITION_NOT_SATISFIED}
MetadataResponses ==
    {Tlv(TAG_METADATA_IS_DEFAULT, <<1>>).bytes
         \o Tlv(TAG_METADATA_RETRIES, <<3, n>>).bytes : n \in {0, 1}}
        \cup {Tlv(TAG_METADATA_RETRIES, <<3, 1>>).bytes,
              Tlv(TAG_METADATA_IS_DEFAULT, <<1>>).bytes
                  \o Tlv(TAG_METADATA_RETRIES, <<3>>).bytes}
ResetResponses ==
    IF resetPc = "get_pin_attempts" /\ TupleGe(version, <<5, 3, 0>>)
    THEN MetadataResponses ELSE {<<>>}

ResetInit ==
    /\ version \in ResetVersions
    /\ _current_pin_retries = 3
    /\ _max_pin_retries = 3
    /\ pivCall = PivCall("__init__", 0, <<>>, SW.OK, "", None, 3)
    /\ resetPc = "idle"
    /\ resetCounter = 0
    /\ resetSent = <<>>
    /\ resetRecv = <<>>
    /\ resetRaised = ""

ResetIdle ==
    /\ resetPc = "idle"
    /\ resetCounter = 0
    /\ resetSent = <<>>
    /\ resetRecv = <<>>
    /\ resetRaised = ""

ResetNext ==
    \/ \E sw \in {SW.OK, \H63C1} :
           /\ resetPc \in {"idle", "done"}
           /\ verify_pin(<<49, 50, 51, 52, 53, 54>>, sw)
           /\ UNCHANGED notPin
    \/ \E sw \in {SW.AUTH_METHOD_BLOCKED} :
           /\ resetPc \in {"idle", "done"}
           /\ unblock_pin(<<>>, <<>>, sw)
           /\ UNCHANGED notPin
    \/ reset_piv /\ UNCHANGED notReset
    \/ \E response \in ResetResponses, sw \in ResetStatusWords :
           /\ Len(resetSent) <= MaxResetApdus
           /\ ResetAnswer(response, sw)
           /\ UNCHANGED notReset

(***************************************************************************)
(* OATH: the id of a credential                                            *)
(***************************************************************************)
\* str.encode() for the ASCII texts of this model: the byte of each
\* character.
Ord(ch) == CHOOSE b \in 0..127 : Chr(b) = ch /\ (ch = "?" => b = 63)
encode(text) == [i \in 1..Len(text) |-> Ord(text[i])]

\* CredentialData, the dataclass; issuer is an Optional text.
CredentialData(name, oath_type, hash_algorithm, secret, digits, period, counter, issuer) ==
    [name |-> name, oath_type |-> oath_type,
     hash_algorithm |-> hash_algorithm, secret |-> secret, digits |-> digits,
     period |-> period, counter |-> counter, issuer |-> issuer]

\* _format_cred_id with the period prefix on every TOTP credential.
Mutant_format_cred_id(issuer, name, oath_type, period) ==
    encode((IF oath_type = OATH_TYPE.TOTP THEN str(period) \o <<"/">> ELSE <<>>)
           \o (IF issuer # None /\ issuer[1] # <<>>
               THEN issuer[1] \o <<":">> ELSE <<>>)
           \o name)

\* _format_cred_id(issuer, name, oath_type, period).  "if issuer:" is false
\* for None and for the empty text.
_format_cred_id(issuer, name, oath_type, period) ==
    LET cred_id0 == <<>>
        cred_id1 == IF oath_type = OATH_TYPE.TOTP /\ period # DEFAULT_PERIOD
                    THEN cred_id0 \o str(period) \o <<"/">>
                    ELSE cred_id0
        cred_id2 == IF issuer # None /\ issuer[1] # <<>>
                    THEN cred_id1 \o issuer[1] \o <<":">>
                    ELSE cred_id1
        cred_id3 == cred_id2 \o name
    IN  encode(cred_id3)

\* CredentialData.get_id()
get_id ==
    /\ credId' = Some(_format_cred_id(credData.issuer, credData.name,
                                      credData.oath_type, credData.period))
    /\ UNCHANGED credData

\* The credentials get_id is called on.
TextExample == <<"E", "x", "a", "m", "p", "l", "e">>
TextUser == <<"u", "s", "e", "r">>
CredNames == {TextUser, <<"6", "0", "/", "u", "s", "e", "r">>, <<"a", ":", "b">>}
CredIssuers == {None, Some(<<>>), Some(TextExample), Some(<<"6", "0", "/", "x">>)}
CredPeriods == {DEFAULT_PERIOD, 60, 0, 7}
CredSecrets == {<<1, 2, 3>>, <<255>>}
CredDigits == {6, 8}
CredCounters == {0, 5}

CredInit ==
    /\ credData \in {CredentialData(name, oath_type, hash_algorithm, secret, digits, period, counter, issuer) :
                        name \in CredNames,
                        oath_type \in {OATH_TYPE.HOTP, OATH_TYPE.TOTP},
                        hash_algorithm \in {HASH_ALGORITHM.SHA1, HASH_ALGORITHM.SHA256},
                        secret \in CredSecrets, digits \in CredDigits,
                        period \in CredPeriods, counter \in CredCounters,
                        issuer \in CredIssuers}
    /\ credId = None
CredIdle ==
    /\ credData = CredentialData(TextUser, OATH_TYPE.TOTP, HASH_ALGORITHM.SHA1, <<1, 2, 3>>, 6, DEFAULT_PERIOD, 0, None)
    /\ credId = None
CredNext ==
    \/ get_id /\ UNCHANGED notCred

(***************************************************************************)
(* OATH: calculate_code                                                    *)
(***************************************************************************)
\* calculate_code(credential, timestamp) up to its send_apdu; time() returns
\* now.
calculate_code(credential, timestamp, now) ==
    LET t == TimestampOr(timestamp, now)
        challenge == IF credential.oath_type = OATH_TYPE.TOTP
                     THEN _get_challenge(t, credential.period[1])
                     ELSE [raised |-> "", val |-> <<>>]
        Raise(exc) ==
            /\ calcPc' = "done"
            /\ calcRaised' = exc
            /\ calcSent' = <<>>
    IN  /\ calcPc \in {"idle", "done"}
        /\ calcCredential' = credential
        /\ calcArg' = timestamp
        /\ calcRecv' = <<>>
        /\ calcCode' = None
        /\ IF credential.device_id # DeviceId
           THEN Raise("ValueError") /\ UNCHANGED calcTimestamp
           ELSE /\ calcTimestamp' = t
                /\ IF challenge.raised # "" THEN Raise(challenge.raised)
                   ELSE /\ calcPc' = "sent"
                        /\ calcRaised' = ""
                        /\ calcSent' = <<CalculateCommand(credential,
                                                          challenge.val)>>

\* The device answers CALCULATE with (response, sw); calculate_code unwraps
\* the truncated response and returns the formatted Code.
CalcAnswer(response, sw) ==
    LET truncated == unwrap(TAG_TRUNCATED, response)
        formatted == _format_code(calcCredential, calcTimestamp,
                                  truncated.val)
        Raise(exc) == calcRaised' = exc /\ calcCode' = None
    IN  /\ calcPc = "sent"
        /\ calcPc' = "done"
        /\ UNCHANGED <<calcCredential, calcArg, calcTimestamp, calcSent>>
        /\ IF ApduRaises(sw) THEN Raise("ApduError") /\ UNCHANGED calcRecv
           ELSE /\ calcRecv' = Append(calcRecv, response)
                /\ IF truncated.raised # "" THEN Raise("ValueError")
                   ELSE IF formatted.raised # "" THEN Raise(formatted.raised)
                   ELSE calcRaised' = "" /\ calcCode' = Some(formatted.code)

\* The inputs: credentials of this device as list() or calculate_all return
\* them, and one of another device; truncated responses of 6 and 8 digits.
CalcCredential(device_id, text, oath_type) ==
    LET parsed == _parse_cred_id(encode(text), oath_type)
    IN  Credential(device_id, encode(text), parsed.issuer, parsed.name, oath_type, parsed.period, FALSE)
CalcCredentials ==
    {CalcCredential(DeviceId, <<"a">>, OATH_TYPE.TOTP),
     CalcCredential(DeviceId, <<"6", "0", "/", "i", ":", "b">>, OATH_TYPE.TOTP),
     CalcCredential(DeviceId, <<"7", "/", "c">>, OATH_TYPE.TOTP),
     CalcCredential(DeviceId, <<"0", "/", "z">>, OATH_TYPE.TOTP),
     CalcCredential(DeviceId, <<"i", ":", "h">>, OATH_TYPE.HOTP),
     CalcCredential("other", <<"a">>, OATH_TYPE.TOTP)}
TruncatedValues ==
    {<<6, 0, 0, 3, 232>>, <<6, 128, 0, 3, 232>>, <<8, 0, 0, 3, 232>>,
     <<8, 59, 154, 202, 7>>, <<6, 59, 154, 202, 7>>, <<6, 255, 255, 255, 255>>,
     <<6, 0, 0, 0, 0>>, <<>>}
CalcResponses ==
    {Tlv(TAG_TRUNCATED, v).bytes : v \in TruncatedValues}
        \cup {Tlv(TAG_RESPONSE, <<6, 1, 2, 3, 4>>).bytes}
CalcTimestamps == {None, Some(0), Some(59), Some(1600000030)}

CalcInit ==
    /\ calcPc = "idle"
    /\ calcCredential = NoCredential
    /\ calcArg = None
    /\ calcTimestamp = 0
    /\ calcSent = <<>>
    /\ calcRecv = <<>>
    /\ calcCode = None
    /\ calcRaised = ""
CalcIdle == CalcInit

CalcNext ==
    \/ \E credential \in CalcCredentials, timestamp \in CalcTimestamps, now \in Clock :
           calculate_code(credential, timestamp, now) /\ UNCHANGED notCalc
    \/ \E response \in CalcResponses, sw \in OathStatusWords :
           CalcAnswer(response, sw) /\ UNCHANGED notCalc

(***************************************************************************)
(* PIV: set_management_key                                                 *)
(***************************************************************************)
INS_SET_MGMKEY == 255     \* 0xFF

MgmKeyCall(op, management_key, sent, raised) ==
    [op |-> op, management_key |-> management_key, sent |-> sent,
     raised |-> raised]

\* The command APDU of set_management_key
SetMgmKeyCommand(management_key) ==
    Apdu(0, INS_SET_MGMKEY, 255, 255,
         <<TDES>> \o Tlv(SLOT.CARD_MANAGEMENT, management_key).bytes)

\* set_management_key(management_key); the device answers the command, when
\* one is sent, with the status word sw.
set_management_key(management_key, sw) ==
    mgmKeyCall' =
        IF Len(management_key) # 24
        THEN MgmKeyCall("set_management_key", management_key, <<>>,
                        "ValueError")
        ELSE MgmKeyCall("set_management_key", management_key,
                        <<SetMgmKeyCommand(management_key)>>,
                        IF ApduRaises(sw) THEN "ApduError" ELSE "")

MgmKeyInit == mgmKeyCall = MgmKeyCall("__init__", <<>>, <<>>, "")
MgmKeyIdle == MgmKeyInit

\* set_management_key and authenticate on one session
MgmKeyNext ==
    \/ \E key \in ManagementKeys, sw \in AuthStatusWords :
           set_management_key(key, sw) /\ UNCHANGED notMgmKey
    \/ AuthNext

(***************************************************************************)
(* PIV: the PIN/PUK calls with their arguments on record                   *)
(***************************************************************************)
PinArgsInit ==
    /\ PinInit
    /\ pinArgs = <<>>
PinArgsIdle == pinArgs = <<>>

PinArgsNext ==
    \/ \E pin \in Pins, sw \in PinStatusWords :
           verify_pin(pin, sw) /\ pinArgs' = <<pin>> /\ UNCHANGED notPinArgs
    \/ \E v1 \in Pins, v2 \in Pins, sw \in PinStatusWords :
           change_pin(v1, v2, sw) /\ pinArgs' = <<v1, v2>> /\ UNCHANGED notPinArgs
    \/ \E v1 \in Pins, v2 \in Pins, sw \in PinStatusWords :
           change_puk(v1, v2, sw) /\ pinArgs' = <<v1, v2>> /\ UNCHANGED notPinArgs
    \/ \E v1 \in Pins, v2 \in Pins, sw \in PinStatusWords :
           unblock_pin(v1, v2, sw) /\ pinArgs' = <<v1, v2>> /\ UNCHANGED notPinArgs

(***************************************************************************)
(* OATH: CredentialData and put_credential                                 *)
(***************************************************************************)
TAG_PROPERTY == 120    \* 0x78
TAG_IMF == 122         \* 0x7A
INS_PUT == 1           \* 0x01
DEFAULT_DIGITS == 6
DEFAULT_IMF == 0
HMAC_MINIMUM_KEY_SIZE == 14
PROP_REQUIRE_TOUCH == 2    \* 0x02

\* base64.b32decode on the text parse_b32_key hands it: key.upper() with the
\* blanks removed and "=" added up to a multiple of 8.  A character is worth
\* its place in A-Z2-7 (upper() makes the case of a letter immaterial); with
\* 1, 3 or 6 characters in the last group the padding is one b32decode
\* refuses.  The bytes are the bits of the characters, 5 each, taken 8 at a
\* time.
Letters == <<"a", "b", "c", "d", "e", "f", "g", "h", "i", "j", "k", "l", "m", "n", "o", "p", "q", "r", "s", "t", "u", "v", "w", "x", "y", "z">>
B32Value(ch) ==
    IF ch = "E" THEN 4
    ELSE IF \E i \in 1..26 : Letters[i] = ch
    THEN (CHOOSE i \in 1..26 : Letters[i] = ch) - 1
    ELSE IF IsDigit(ch) /\ DigitValue(ch) \in 2..7 THEN DigitValue(ch) + 24
    ELSE -1
Pow2(n) == IF n = 0 THEN 1 ELSE IF n = 1 THEN 2 ELSE IF n = 2 THEN 4 ELSE IF n = 3 THEN 8 ELSE 16
B32Bit(chars, k) == (B32Value(chars[(k \div 5) + 1]) \div Pow2(4 - (k % 5))) % 2
B32Byte(chars, i) ==
    128 * B32Bit(chars, 8 * i) + 64 * B32Bit(chars, 8 * i + 1)
        + 32 * B32Bit(chars, 8 * i + 2) + 16 * B32Bit(chars, 8 * i + 3)
        + 8 * B32Bit(chars, 8 * i + 4) + 4 * B32Bit(chars, 8 * i + 5)
        + 2 * B32Bit(chars, 8 * i + 6) + B32Bit(chars, 8 * i + 7)
parse_b32_key(key) ==
    LET chars == SelectSeq(key, LAMBDA ch : ch # " ")
    IN  IF (\E i \in 1..Len(chars) : B32Value(chars[i]) < 0)
           \/ (Len(chars) % 8) \in {1, 3, 6}
        THEN [raised |-> "binascii.Error", val |-> <<>>]
        ELSE [raised |-> "",
              val |-> [i \in 1..((Len(chars) * 5) \div 8) |-> B32Byte(chars, i - 1)]]

\* int(s) for the text of a query parameter: decimal digits, with or without
\* a sign in front.
IntOf(s) ==
    LET signed == Len(s) > 0 /\ s[1] \in {"-", "+"}
        digits == IF signed THEN Tail(s) ELSE s
    IN  IF Len(digits) = 0 \/ \E i \in 1..Len(digits) : ~IsDigit(digits[i])
        THEN [raised |-> "ValueError", val |-> 0]
        ELSE [raised |-> "",
              val |-> IF signed /\ s[1] = "-" THEN 0 - int(digits) ELSE int(digits)]

\* A URI as urlparse, parse_qs and unquote hand it to parse_uri: the scheme,
\* the hostname (None without one), the unquoted path and the first value of
\* each query parameter (None for a parameter that is absent).
Uri(scheme, hostname, path, secret, algo_name, digits, period, counter, issuer) ==
    [scheme |-> scheme, hostname |-> hostname, path |-> path,
     secret |-> secret, algorithm |-> algo_name, digits |-> digits,
     period |-> period, counter |-> counter, issuer |-> issuer]
\* s.upper() for the names of this model
upper(s) ==
    IF s = "totp" THEN "TOTP" ELSE IF s = "hotp" THEN "HOTP"
    ELSE IF s = "sha1" THEN "SHA1" ELSE IF s = "sha256" THEN "SHA256"
    ELSE IF s = "sha512" THEN "SHA512" ELSE IF s = "md5" THEN "MD5"
    ELSE s
NoData == CredentialData(<<>>, 0, 0, <<>>, 0, 0, 0, None)

\* CredentialData.parse_uri(uri): the CredentialData, or the exception.
parse_uri(uri) ==
    LET Raise(exc) == [raised |-> exc, val |-> NoData]
        host == upper(uri.hostname[1])
        path_name == Tail(uri.path)
        c == FirstColon(path_name)
        path_issuer == IF c > 0 THEN Some(SubSeq(path_name, 1, c - 1)) ELSE None
        name == IF c > 0 THEN SubSeq(path_name, c + 1, Len(path_name))
                ELSE path_name
        algo_name == IF uri.algorithm = None THEN "SHA1"
                     ELSE upper(uri.algorithm[1])
        secret == parse_b32_key(uri.secret[1])
        digits == IF uri.digits = None THEN [raised |-> "", val |-> DEFAULT_DIGITS]
                  ELSE IntOf(uri.digits[1])
        period == IF uri.period = None THEN [raised |-> "", val |-> DEFAULT_PERIOD]
                  ELSE IntOf(uri.period[1])
        counter == IF uri.counter = None THEN [raised |-> "", val |-> DEFAULT_IMF]
                   ELSE IntOf(uri.counter[1])
    IN  IF uri.scheme # "otpauth" THEN Raise("ValueError")
        ELSE IF uri.hostname = None THEN Raise("ValueError")
        ELSE IF host \notin {"TOTP", "HOTP"} THEN Raise("KeyError")
        ELSE IF algo_name \notin {"SHA1", "SHA256", "SHA512"} THEN Raise("KeyError")
        ELSE IF uri.secret = None THEN Raise("KeyError")
        ELSE IF secret.raised # "" THEN Raise(secret.raised)
        ELSE IF digits.raised # "" THEN Raise(digits.raised)
        ELSE IF period.raised # "" THEN Raise(period.raised)
        ELSE IF counter.raised # "" THEN Raise(counter.raised)
        ELSE [raised |-> "",
              val |-> CredentialData(
                          name,
                          IF host = "TOTP" THEN OATH_TYPE.TOTP ELSE OATH_TYPE.HOTP,
                          IF algo_name = "SHA1" THEN HASH_ALGORITHM.SHA1
                          ELSE IF algo_name = "SHA256" THEN HASH_ALGORITHM.SHA256
                          ELSE HASH_ALGORITHM.SHA512,
                          secret.val, digits.val, period.val, counter.val,
                          IF uri.issuer # None THEN uri.issuer ELSE path_issuer)]

\* getattr(hashes, algo.name)(): the block size and the digest size of the
\* hash, in bytes.  The digest itself is replaced by a function of the sum
\* and the length of the message, of the right size.
block_size(algo) == IF algo = HASH_ALGORITHM.SHA512 THEN 128 ELSE 64
digest_size(algo) ==
    IF algo = HASH_ALGORITHM.SHA1 THEN 20
    ELSE IF algo = HASH_ALGORITHM.SHA256 THEN 32
    ELSE 64
Digest(algo, message) ==
    [i \in 1..digest_size(algo) |-> (31 * i + ByteSum(message) + Len(message)) % 256]

\* _hmac_shorten_key(key, algo)
_hmac_shorten_key(key, algo) ==
    IF Len(key) > block_size(algo) THEN Digest(algo, key) ELSE key

\* struct.pack("<BB", a, b), with struct.error for a value out of the range
\* of its field, and struct.pack(">I", n) for the counters of this model,
\* which fit the field.
pack_BB(a, b) ==
    IF a \notin 0..255 \/ b \notin 0..255
    THEN [raised |-> "struct.error", val |-> <<>>]
    ELSE [raised |-> "", val |-> <<a, b>>]
pack_I(n) == rjust(BigEndian(n), 4, 0)

\* The record of one call.
PutCall(op, touch_required, sent, raised, credential) ==
    [op |-> op, touch_required |-> touch_required, sent |-> sent,
     raised |-> raised, credential |-> credential]

\* The secret put_credential sends, padded at the front instead of the end.
Mutant_PutSecret(d) ==
    rjust(_hmac_shorten_key(d.secret, d.hash_algorithm), HMAC_MINIMUM_KEY_SIZE, 0)

\* The secret put_credential sends: shortened, then secret.ljust(14, b"\0").
PutSecret(d) ==
    ljust(_hmac_shorten_key(d.secret, d.hash_algorithm), HMAC_MINIMUM_KEY_SIZE, 0)

\* The data of the PUT command; oath_type | hash_algorithm is their sum, the
\* two having no bit in common.
PutData(d, touch_required) ==
    LET cred_id == _format_cred_id(d.issuer, d.name, d.oath_type, d.period)
        head == pack_BB(d.oath_type + d.hash_algorithm, d.digits)
    IN  IF head.raised # "" THEN [raised |-> head.raised, val |-> <<>>]
        ELSE [raised |-> "",
              val |-> Tlv(TAG_NAME, cred_id).bytes
                          \o Tlv(TAG_KEY, head.val \o PutSecret(d)).bytes
                          \o (IF touch_required
                              THEN <<TAG_PROPERTY, PROP_REQUIRE_TOUCH>> ELSE <<>>)
                          \o (IF d.counter > 0
                              THEN Tlv(TAG_IMF, pack_I(d.counter)).bytes
                              ELSE <<>>)]

\* CredentialData(...) built by the caller: the dataclass stores the fields.
NewCredentialData(d) ==
    /\ putData' = Some(d)
    /\ putCall' = PutCall("CredentialData", FALSE, <<>>, "", NoCredential)

\* CredentialData.parse_uri(uri) called by the caller
ParseUri(uri) ==
    LET parsed == parse_uri(uri)
    IN  /\ putData' = IF parsed.raised = "" THEN Some(parsed.val) ELSE None
        /\ putCall' = PutCall("parse_uri", FALSE, <<>>, parsed.raised,
                              NoCredential)
    
\* put_credential(credential_data, touch_required) on the CredentialData the
\* caller holds; the device answers the command with the status word sw.
put_credential(touch_required, sw) ==
    LET d == putData[1]
        data == PutData(d, touch_required)
        sent == <<Apdu(0, INS_PUT, 0, 0, data.val)>>
        Call(s, raised, credential) ==
            PutCall("put_credential", touch_required, s, raised, credential)
    IN  /\ putData # None
        /\ UNCHANGED putData
        /\ putCall' =
               IF data.raised # "" THEN Call(<<>>, data.raised, NoCredential)
               ELSE IF ApduRaises(sw) THEN Call(sent, "ApduError", NoCredential)
               ELSE Call(sent, "",
                         Credential(DeviceId,
                                    _format_cred_id(d.issuer, d.name,
                                                    d.oath_type, d.period),
                                    d.issuer, d.name, d.oath_type,
                                    Some(d.period), touch_required))

\* The inputs.  Credentials are made with digits and periods on both sides
\* of zero, secrets on both sides of 14 bytes and of the block sizes, and
\* from URIs with and without each parameter.
PutSecrets == {Payload(n, 7) : n \in {5, 13, 14, 64, 65, 128, 129}}
PutDigits == {6, 0, -1, 256}
PutPeriods == {30, 60, 0, -5}
PutCredentials ==
    {CredentialData(TextUser, OATH_TYPE.TOTP, hash_algorithm, secret, DEFAULT_DIGITS, DEFAULT_PERIOD, DEFAULT_IMF, None) :
        hash_algorithm \in {HASH_ALGORITHM.SHA1, HASH_ALGORITHM.SHA256, HASH_ALGORITHM.SHA512},
        secret \in PutSecrets}
    \cup
    {CredentialData(TextUser, oath_type, HASH_ALGORITHM.SHA1, Payload(20, 3), digits, period, DEFAULT_IMF, None) :
        oath_type \in {OATH_TYPE.HOTP, OATH_TYPE.TOTP},
        digits \in PutDigits, period \in PutPeriods}
    \cup
    {CredentialData(TextUser, OATH_TYPE.HOTP, HASH_ALGORITHM.SHA1, Payload(20, 3), DEFAULT_DIGITS, DEFAULT_PERIOD, counter, issuer) :
        counter \in {0, 5}, issuer \in {None, Some(TextExample)}}
UriName == <<"/">> \o TextUser
UriSecret == Some(<<"m", "z", "x", "w", "6">>)
UriSecrets ==
    {None, UriSecret, Some(<<"m", "z", " ", "x", "w", "6", "y", "t", "b">>),
     Some(<<"m", "1">>), Some(<<"m", "z", "x">>)}
Uris ==
    {Uri(scheme, hostname, UriName, secret, None, None, None, None, None) :
        scheme \in {"otpauth", "http"},
        hostname \in {None, Some("totp"), Some("HOTP"), Some("xotp")},
        secret \in UriSecrets}
    \cup
    {Uri("otpauth", Some("totp"), UriName, UriSecret, None, digits, period, None, None) :
        digits \in {None, Some(<<"8">>), Some(<<"0">>), Some(<<"-", "1">>), Some(<<"x">>)},
        period \in {None, Some(<<"6", "0">>), Some(<<"0">>), Some(<<"-", "5">>)}}
    \cup
    {Uri("otpauth", Some("totp"), <<"/">> \o TextExample \o <<":">> \o TextUser, UriSecret, algo_name, None, None, counter, issuer) :
        algo_name \in {None, Some("sha256"), Some("md5")},
        counter \in {None, Some(<<"5">>)},
        issuer \in {None, Some(<<"j">>)}}

PutInit ==
    /\ putData = None
    /\ putCall = PutCall("__init__", FALSE, <<>>, "", NoCredential)
PutIdle == PutInit

PutNext ==
    \/ \E d \in PutCredentials : NewCredentialData(d) /\ UNCHANGED notPut
    \/ \E uri \in Uris : ParseUri(uri) /\ UNCHANGED notPut
    \/ \E touch_required \in BOOLEAN, sw \in OathStatusWords :
           put_credential(touch_required, sw) /\ UNCHANGED notPut

(***************************************************************************)
(* OATH: rename_credential                                                 *)
(***************************************************************************)
INS_RENAME == 5        \* 0x05

RenameCall(op, credential_id, name, issuer, sent, raised, new_id) ==
    [op |-> op, credential_id |-> credential_id, name |-> name,
     issuer |-> issuer, sent |-> sent, raised |-> raised, new_id |-> new_id]

\* The new id of rename_credential.  The tuple _parse_cred_id returns is
\* assigned to issuer, name and period, which are the names of the
\* parameters: the id is formatted from the parts of the old id.
RenamedId(credential_id, name, issuer) ==
    LET parsed == _parse_cred_id(credential_id, OATH_TYPE.TOTP)
    IN  _format_cred_id(parsed.issuer, parsed.name, OATH_TYPE.TOTP,
                        parsed.period[1])

\* rename_credential(credential_id, name, issuer); the device answers the
\* command with the status word sw.
rename_credential(credential_id, name, issuer, sw) ==
    LET parsed == _parse_cred_id(credential_id, OATH_TYPE.TOTP)
        new_id == RenamedId(credential_id, name, issuer)
        sent == <<Apdu(0, INS_RENAME, 0, 0,
                       Tlv(TAG_NAME, credential_id).bytes
                           \o Tlv(TAG_NAME, new_id).bytes)>>
        Call(s, raised, id) ==
            RenameCall("rename_credential", credential_id, name, issuer, s,
                       raised, id)
    IN  /\ UNCHANGED renameVersion
        /\ renameCall' =
               IF TupleLt(renameVersion, <<5, 3, 1>>)
               THEN Call(<<>>, "NotSupportedError", <<>>)
               ELSE IF parsed.raised # "" THEN Call(<<>>, parsed.raised, <<>>)
               ELSE IF ApduRaises(sw) THEN Call(sent, "ApduError", <<>>)
               ELSE Call(sent, "", new_id)

\* The inputs: firmware on both sides of 5.3.1; ids with and without a
\* period prefix and an issuer, and one that is not UTF-8.
RenameVersions == {<<5, 3, 0>>, <<5, 3, 1>>, <<5, 4, 3>>, <<4, 3, 7>>}
RenameIds ==
    {encode(<<"a">>), encode(<<"6", "0", "/", "i", ":", "b">>),
     encode(<<"i", ":", "c">>), encode(<<"1", "5", "/", "d">>), <<255>>}
RenameNames == {<<"n">>, <<"a">>, TextUser}
RenameIssuers == {None, Some(<<"j">>), Some(<<"i">>), Some(TextExample)}

RenameInit ==
    /\ renameVersion \in RenameVersions
    /\ renameCall = RenameCall("__init__", <<>>, <<>>, None, <<>>, "", <<>>)
RenameIdle ==
    /\ renameVersion = <<5, 4, 3>>
    /\ renameCall = RenameCall("__init__", <<>>, <<>>, None, <<>>, "", <<>>)

RenameNext ==
    \/ \E credential_id \in RenameIds, name \in RenameNames,
          issuer \in RenameIssuers, sw \in OathStatusWords :
           rename_credential(credential_id, name, issuer, sw)
               /\ UNCHANGED notRename

(***************************************************************************)
(* Management: reading the device info                                     *)
(***************************************************************************)
\* check_crc(data) of yubikit.core.otp: whether the last two bytes of data
\* are the checksum of the bytes before them.  The checksum is a 16-bit
\* function of those bytes.
Checksum(data) == <<(ByteSum(data) + Len(data)) % 256, (ByteSum(data) \div 256) % 256>>
check_crc(data) ==
    /\ Len(data) >= 2
    /\ SubSeq(data, Len(data) - 1, Len(data))
           = Checksum(SubSeq(data, 1, Len(data) - 2))

\* _ManagementOtpBackend.read_config() on the response of send_and_receive
read_config(response) ==
    IF Len(response) = 0 THEN [raised |-> "IndexError", val |-> <<>>]
    ELSE LET r_len == response[1]
         IN  IF check_crc(SliceTo(response, r_len + 1 + 2))
             THEN [raised |-> "", val |-> SliceTo(response, r_len + 1)]
             ELSE [raised |-> "BadResponseError", val |-> <<>>]

InfoCall(op, response, default_version, raised, info) ==
    [op |-> op, response |-> response, default_version |-> default_version,
     raised |-> raised, info |-> info]

\* DeviceInfo.parse(encoded, default_version) on what a backend returned
DeviceInfoParse(encoded, default_version) ==
    LET r == DeviceInfo_parse(encoded, default_version)
    IN  infoCall' = InfoCall("parse", encoded, default_version, r.raised, r.info)

\* DeviceInfo.parse(backend.read_config(), version) over the OTP backend
OtpReadDeviceInfo(response, default_version) ==
    LET encoded == read_config(response)
        r == DeviceInfo_parse(encoded.val, default_version)
    IN  infoCall' =
            IF encoded.raised # ""
            THEN InfoCall("read_config", response, default_version,
                          encoded.raised, NoDeviceInfo)
            ELSE InfoCall("read_config", response, default_version, r.raised,
                          r.info)

\* The inputs: the responses of the session's reads and two more with a
\* reported version; over OTP each comes with its checksum and the zero
\* bytes that fill the frame, or with a checksum that is wrong, or cut short.
InfoResponses ==
    ReadResponses
        \cup {Framed(InfoItem(TAG.USB_SUPPORTED, <<\H02, \H3B>>)
                         \o InfoItem(TAG.VERSION, <<4, 2, 5>>)),
              Framed(InfoItem(TAG.VERSION, <<4, 2, 4>>)
                         \o InfoItem(TAG.USB_SUPPORTED, <<\H02, \H3B>>)),
              <<1>>, Framed(<<TAG.USB_SUPPORTED, \H80>>)}
WithCrc(encoded) == encoded \o Checksum(encoded) \o <<0, 0>>
OtpResponses ==
    {WithCrc(e) : e \in InfoResponses \ {<<>>}}
        \cup {Framed(InfoItem(TAG.USB_SUPPORTED, <<\H3F>>)) \o <<0, 0>>,
              Framed(InfoItem(TAG.USB_SUPPORTED, <<\H3F>>)),
              <<>>, <<9, 1, 2>>}
InfoVersions == {<<4, 1, 0>>, <<4, 2, 4>>, <<5, 2, 7>>, <<5, 4, 3>>}

InfoInit == infoCall = InfoCall("__init__", <<>>, <<>>, "", NoDeviceInfo)
InfoIdle == InfoInit

InfoNext ==
    \/ \E encoded \in InfoResponses, default_version \in InfoVersions :
           DeviceInfoParse(encoded, default_version) /\ UNCHANGED notInfo
    \/ \E response \in OtpResponses, default_version \in InfoVersions :
           OtpReadDeviceInfo(response, default_version) /\ UNCHANGED notInfo

(***************************************************************************)
(* PIV: the object id of a slot                                            *)
(***************************************************************************)
OBJECT_ID ==
    [CAPABILITY |-> \H5FC107, CHUID |-> \H5FC102,
     AUTHENTICATION |-> \H5FC105, FINGERPRINTS |-> \H5FC103,
     SECURITY |-> \H5FC106, FACIAL |-> \H5FC108, PRINTED |-> \H5FC109,
     SIGNATURE |-> \H5FC10A, KEY_MANAGEMENT |-> \H5FC10B,
     CARD_AUTH |-> \H5FC101, DISCOVERY |-> \H7E, KEY_HISTORY |-> \H5FC10C,
     IRIS |-> \H5FC121, RETIRED1 |-> \H5FC10D, RETIRED2 |-> \H5FC10E,
     RETIRED3 |-> \H5FC10F, RETIRED4 |-> \H5FC110, RETIRED5 |-> \H5FC111,
     RETIRED6 |-> \H5FC112, RETIRED7 |-> \H5FC113, RETIRED8 |-> \H5FC114,
     RETIRED9 |-> \H5FC115, RETIRED10 |-> \H5FC116, RETIRED11 |-> \H5FC117,
     RETIRED12 |-> \H5FC118, RETIRED13 |-> \H5FC119, RETIRED14 |-> \H5FC11A,
     RETIRED15 |-> \H5FC11B, RETIRED16 |-> \H5FC11C, RETIRED17 |-> \H5FC11D,
     RETIRED18 |-> \H5FC11E, RETIRED19 |-> \H5FC11F, RETIRED20 |-> \H5FC120,
     ATTESTATION |-> \H5FFF01]
SlotValues == {SLOT[n] : n \in DOMAIN SLOT}
\* SLOT(slot).name
SlotName(slot) == CHOOSE n \in DOMAIN SLOT : SLOT[n] = slot

\* OBJECT_ID.from_slot(slot)
from_slot(slot) ==
    IF slot \notin SlotValues THEN [raised |-> "ValueError", val |-> 0]
    ELSE IF SlotName(slot) \notin DOMAIN OBJECT_ID
    THEN [raised |-> "AttributeError", val |-> 0]
    ELSE [raised |-> "", val |-> OBJECT_ID[SlotName(slot)]]

SlotCall(op, slot, raised, val) ==
    [op |-> op, slot |-> slot, raised |-> raised, val |-> val]

FromSlot(slot) ==
    LET r == from_slot(slot)
    IN  /\ slotPrev' = slotCall
        /\ slotCall' = SlotCall("from_slot", slot, r.raised, r.val)

\* The inputs: every member of SLOT and some values that are none.
SlotInputs == SlotValues \cup {\H00, \H81, \H96, \H9F}

SlotInit ==
    /\ slotPrev = SlotCall("__init__", 0, "", 0)
    /\ slotCall = SlotCall("__init__", 0, "", 0)
SlotIdle == SlotInit

SlotNext == \E slot \in SlotInputs : FromSlot(slot) /\ UNCHANGED notSlot

(***************************************************************************)
(* OATH: Credentials compared                                              *)
(***************************************************************************)
\* str.lower()
LowerChar(ch) == IF Ord(ch) \in 65..90 THEN Chr(Ord(ch) + 32) ELSE ch
lower(text) == [i \in 1..Len(text) |-> LowerChar(text[i])]

\* s < t for two texts, by the code points of their characters
RECURSIVE str_lt(_, _)
str_lt(s, t) ==
    IF t = <<>> THEN FALSE
    ELSE IF s = <<>> THEN TRUE
    ELSE IF Head(s) # Head(t) THEN Ord(Head(s)) < Ord(Head(t))
    ELSE str_lt(Tail(s), Tail(t))

\* self.issuer or self.name
IssuerOrName(c) ==
    IF c.issuer = None \/ c.issuer[1] = <<>> THEN c.name ELSE c.issuer[1]

\* Credential.__lt__ comparing the names as they are written.
Mutant_Credential_lt(self, other) ==
    LET a == <<IssuerOrName(self), self.name>>
        b == <<IssuerOrName(other), other.name>>
    IN  str_lt(a[1], b[1]) \/ (a[1] = b[1] /\ str_lt(a[2], b[2]))

\* Credential.__lt__
Credential_lt(self, other) ==
    LET a == <<lower(IssuerOrName(self)), lower(self.name)>>
        b == <<lower(IssuerOrName(other)), lower(other.name)>>
    IN  str_lt(a[1], b[1]) \/ (a[1] = b[1] /\ str_lt(a[2], b[2]))

\* Credential.__hash__: the hash of the tuple (device_id, id).  hash() is
\* stood for by the tuple it is given, two tuples having one hash when
\* they are equal.
Credential_hash(self) == <<self.device_id, self.id>>

OrderCall(op, a, b, eq, hash_eq, lt) ==
    [op |-> op, a |-> a, b |-> b, eq |-> eq, hash_eq |-> hash_eq, lt |-> lt]

\* a == b, hash(a) == hash(b) and a < b
Compare(a, b) ==
    orderCall' = OrderCall("compare", a, b, CredentialEq(a, b),
                           Credential_hash(a) = Credential_hash(b),
                           Credential_lt(a, b))

\* The inputs: Credentials of two devices and two ids, one of them twice
\* with other fields, and Credentials of every issuer and name below.
OrderIssuers == {None, Some(<<>>), Some(<<"B">>), Some(<<"a">>)}
OrderNames == {<<"b">>, <<"A", "b">>, <<"a">>}
OrderCredentials ==
    {Credential(device_id, id, None, <<"a">>, OATH_TYPE.TOTP,
                Some(DEFAULT_PERIOD), FALSE) :
         device_id \in {DeviceId, "other"}, id \in {<<97>>, <<98>>}}
        \cup {Credential(DeviceId, <<97>>, Some(<<"B">>), <<"b">>,
                         OATH_TYPE.HOTP, Some(60), TRUE)}
        \cup {Credential(DeviceId, <<99>>, issuer, name, OATH_TYPE.TOTP,
                         Some(DEFAULT_PERIOD), FALSE) :
                  issuer \in OrderIssuers, name \in OrderNames}

OrderInit ==
    orderCall = OrderCall("__init__", NoCredential, NoCredential, TRUE, TRUE,
                          FALSE)
OrderIdle == OrderInit

OrderNext ==
    \E a \in OrderCredentials, b \in OrderCredentials :
        Compare(a, b) /\ UNCHANGED notOrder

(***************************************************************************)
(* TLV: parse_list and parse_dict on the bytes of several Tlv objects      *)
(***************************************************************************)
\* b"".join(parts)
RECURSIVE Join(_)
Join(parts) ==
    IF parts = <<>> THEN <<>> ELSE Head(parts).bytes \o Join(Tail(parts))

\* dict((tlv.tag, tlv.value) for tlv in list): a later entry replaces an
\* earlier one of the same tag.
DictOf(list) ==
    {<<TlvTagOf(list[i]), TlvValueOf(list[i])>> :
         i \in {k \in 1..Len(list) :
                    \A j \in (k + 1)..Len(list) :
                        TlvTagOf(list[j]) # TlvTagOf(list[k])}}

ListCall(op, parts, raised, list, dict) ==
    [op |-> op, parts |-> parts, raised |-> raised, list |-> list,
     dict |-> dict]

\* Tlv.parse_list(b"".join(parts))
ParseList(parts) ==
    LET r == parse_list(Join(parts))
    IN  listCall' = ListCall("parse_list", parts, r.raised, r.list, {})

\* Tlv.parse_dict(b"".join(parts))
ParseDict(parts) ==
    LET r == parse_dict(Join(parts))
    IN  listCall' = ListCall("parse_dict", parts, r.raised, <<>>,
                             IF r.raised = "" THEN DictOf(r.list) ELSE {})

\* The inputs: up to MaxParts Tlv objects, each built by Tlv(tag, value) or
\* by Tlv(data), with short and long lengths, tags that repeat, a two-byte
\* integer as tag, and data shorter than its length octet says.
MaxParts == 3
ListTlvs ==
    {t \in {Tlv(\H01, <<>>), Tlv(\H01, <<\H2A>>), Tlv(\H02, <<\H2B>>),
            Tlv(\H02, [i \in 1..128 |-> \H7F]), Tlv(\H0105, <<>>),
            TlvOfBytes(<<\H03, \H02, \H2C>>)} : t.raised = ""}
ListParts == UNION {[1..n -> ListTlvs] : n \in 0..MaxParts}

ListInit == listCall = ListCall("__init__", <<>>, "", <<>>, {})
ListIdle == ListInit

ListNext ==
    \/ \E parts \in ListParts : ParseList(parts) /\ UNCHANGED notList
    \/ \E parts \in ListParts : ParseDict(parts) /\ UNCHANGED notList

(***************************************************************************)
(* Management: set_mode on the smart-card backend                          *)
(***************************************************************************)
SLOT_DEVICE_CONFIG == 17     \* 0x11
INS_SET_MODE == 22           \* 0x16
P1_DEVICE_CONFIG == 17       \* 0x11
\* b"\xa4\x04\x00\x08", sent to the connection as it is
DeselectFrame == <<\HA4, \H04, \H00, \H08>>

\* What set_mode does on the device: protocol.select(aid),
\* protocol.send_apdu(...) and connection.send_and_receive(frame).
ScSelect(aid) == [op |-> "select", aid |-> aid, apdu |-> <<>>, frame |-> <<>>]
ScApdu(apdu) == [op |-> "send_apdu", aid |-> "", apdu |-> <<apdu>>, frame |-> <<>>]
ScRaw(frame) == [op |-> "send_and_receive", aid |-> "", apdu |-> <<>>, frame |-> frame]

\* set_mode taking every version for a version other than 3.
Mutant_ScFirstStep(v) == "set_mode_apdu"

\* "if self.version[0] == 3": the first round-trip of set_mode
ScFirstStep(v) == IF v[1] = 3 THEN "select_otp" ELSE "set_mode_apdu"

\* set_mode(data) is called.
ScSetMode(data) ==
    /\ scPc \in {"idle", "returned", "raised"}
    /\ scData' = data
    /\ scOps' = <<>>
    /\ scRaised' = ""
    /\ scPc' = ScFirstStep(scVersion)
    /\ UNCHANGED <<scVersion, scSelected>>

\* protocol.select(aid) at the step pc, going on to the step next: the
\* application is selected, or it is not available.
ScSelectStep(pc, aid, next, available) ==
    /\ scPc = pc
    /\ scOps' = Append(scOps, ScSelect(aid))
    /\ IF available
       THEN /\ scSelected' = aid
            /\ scPc' = next
            /\ UNCHANGED scRaised
       ELSE /\ scRaised' = "ApplicationNotAvailableError"
            /\ scPc' = "raised"
            /\ UNCHANGED scSelected
    /\ UNCHANGED <<scVersion, scData>>

\* protocol.send_apdu(apdu) at the step pc, answered with sw.
ScApduStep(pc, apdu, next, sw) ==
    /\ scPc = pc
    /\ scOps' = Append(scOps, ScApdu(apdu))
    /\ IF ApduRaises(sw)
       THEN scRaised' = "ApduError" /\ scPc' = "raised"
       ELSE scPc' = next /\ UNCHANGED scRaised
    /\ UNCHANGED <<scVersion, scData, scSelected>>

\* self.protocol.select(AID.OTP)
ScSelectOtp(available) ==
    ScSelectStep("select_otp", "OTP", "slot_command", available)
\* self.protocol.send_apdu(0, 0x01, SLOT_DEVICE_CONFIG, 0, data)
ScSlotCommand(sw) ==
    ScApduStep("slot_command", Apdu(0, 1, SLOT_DEVICE_CONFIG, 0, scData),
               "deselect", sw)
\* self.protocol.connection.send_and_receive(b"\xa4\x04\x00\x08"): the
\* answer is not looked at, and no application is selected after it.
ScDeselect ==
    /\ scPc = "deselect"
    /\ scOps' = Append(scOps, ScRaw(DeselectFrame))
    /\ scSelected' = ""
    /\ scPc' = "select_mgmt"
    /\ UNCHANGED <<scVersion, scData, scRaised>>
\* self.protocol.select(AID.MGMT)
ScSelectMgmt(available) ==
    ScSelectStep("select_mgmt", "MGMT", "returned", available)
\* self.protocol.send_apdu(0, INS_SET_MODE, P1_DEVICE_CONFIG, 0, data)
ScSetModeApdu(sw) ==
    ScApduStep("set_mode_apdu",
               Apdu(0, INS_SET_MODE, P1_DEVICE_CONFIG, 0, scData), "returned",
               sw)

\* The inputs: a NEO, a YubiKey 4 and a YubiKey 5; mode bytes as
\* ManagementSession.set_mode packs them.
ScVersions == {<<3, 4, 0>>, <<3, 5, 1>>, <<4, 3, 1>>, <<5, 2, 7>>}
ScModeData ==
    {<<0, 0, 0, 0>>, <<\H86, 5, 0, 30>>, <<2, 0, 0, 0>>, <<\H06, 15, 0, 0>>}
ScStatusWords == {SW.OK, SW.INCORRECT_PARAMETERS}

\* _ManagementSmartCardBackend.__init__ selected the Management application.
ScInit ==
    /\ scVersion \in ScVersions
    /\ scData = <<>>
    /\ scPc = "idle"
    /\ scOps = <<>>
    /\ scSelected = "MGMT"
    /\ scRaised = ""
ScIdle ==
    /\ scVersion = <<5, 2, 7>>
    /\ scData = <<>>
    /\ scPc = "idle"
    /\ scOps = <<>>
    /\ scSelected = "MGMT"
    /\ scRaised = ""

ScNext ==
    \/ \E data \in ScModeData : ScSetMode(data) /\ UNCHANGED notSc
    \/ \E available \in BOOLEAN : ScSelectOtp(available) /\ UNCHANGED notSc
    \/ \E sw \in ScStatusWords : ScSlotCommand(sw) /\ UNCHANGED notSc
    \/ ScDeselect /\ UNCHANGED notSc
    \/ \E available \in BOOLEAN : ScSelectMgmt(available) /\ UNCHANGED notSc
    \/ \E sw \in ScStatusWords : ScSetModeApdu(sw) /\ UNCHANGED notSc

(***************************************************************************)
(* PIV: sign                                                               *)
(***************************************************************************)
\* hashes.SHA1(), SHA256(), SHA384(), SHA512() by name, and the size of
\* their digests in bytes.  The digest of a message stands for
\* h.update(message); h.finalize(): bytes of that size made of the message.
HashSize(hash_algorithm) ==
    IF hash_algorithm = "sha1" THEN 20
    ELSE IF hash_algorithm = "sha256" THEN 32
    ELSE IF hash_algorithm = "sha384" THEN 48
    ELSE 64
Hashed(hash_algorithm, message) ==
    LET seed == ByteSum(message) + Len(message)
    IN  [i \in 1..HashSize(hash_algorithm) |-> ((29 * i + seed) % 255) + 1]

\* The RSA branch of _pad_message: the signature of a dummy key encrypted
\* with its public key, an integer below the modulus written on
\* bit_len // 8 bytes; here the bytes of the digest stand for the integer.
RsaPadded(key_type, message, hash_algorithm) ==
    int_to_bytes(Hashed(hash_algorithm, message), bit_len(key_type) \div 8)

\* _pad_message(key_type, message, hash_algorithm, padding)
_pad_message(key_type, message, hash_algorithm) ==
    IF algorithm(key_type) = "EC"
    THEN LET hashed == Hashed(hash_algorithm, message)
             byte_len == bit_len(key_type) \div 8
         IN  IF Len(hashed) < byte_len
             THEN rjust(hashed, byte_len \div 8, 0)
             ELSE SliceTo(hashed, byte_len)
    ELSE RsaPadded(key_type, message, hash_algorithm)

SignCall(op, slot, key_type, message, hash_algorithm, padded, sent, raised) ==
    [op |-> op, slot |-> slot, key_type |-> key_type, message |-> message,
     hash_algorithm |-> hash_algorithm, padded |-> padded, sent |-> sent,
     raised |-> raised]

\* The command APDU of _use_private_key(slot, key_type, message, False)
UsePrivateKeyCommand(slot, key_type, message) ==
    Apdu(0, INS_AUTHENTICATE, key_type, slot,
         Tlv(TAG_DYN_AUTH,
             Tlv(TAG_AUTH_RESPONSE, <<>>).bytes
                 \o Tlv(TAG_AUTH_CHALLENGE, message).bytes).bytes)

\* sign(slot, key_type, message, hash_algorithm, padding); the device
\* answers the command with the status word sw.
sign(slot, key_type, message, hash_algorithm, sw) ==
    LET padded == _pad_message(key_type, message, hash_algorithm)
    IN  signCall' =
            IF key_type \notin {KEY_TYPE[n] : n \in DOMAIN KEY_TYPE}
            THEN SignCall("sign", slot, key_type, message, hash_algorithm,
                          <<>>, <<>>, "ValueError")
            ELSE SignCall("sign", slot, key_type, message, hash_algorithm,
                          padded,
                          <<UsePrivateKeyCommand(slot, key_type, padded)>>,
                          IF ApduRaises(sw) THEN "ApduError" ELSE "")

\* The inputs: both curves, an RSA size and a value that is no KEY_TYPE;
\* the four hash algorithms; three messages.
SignKeyTypes == {KEY_TYPE.ECCP256, KEY_TYPE.ECCP384, KEY_TYPE.RSA1024, \H15}
SignHashes == {"sha1", "sha256", "sha384", "sha512"}
SignMessages == {<<>>, <<1, 2, 3>>, [i \in 1..40 |-> i]}
SignSlots == {SLOT.SIGNATURE, SLOT.AUTHENTICATION}

SignInit == signCall = SignCall("__init__", 0, 0, <<>>, "", <<>>, <<>>, "")
SignIdle == SignInit

SignNext ==
    \E slot \in SignSlots, key_type \in SignKeyTypes, message \in SignMessages,
       hash_algorithm \in SignHashes, sw \in {SW.OK, SW.INCORRECT_PARAMETERS} :
        sign(slot, key_type, message, hash_algorithm, sw) /\ UNCHANGED notSign

(***************************************************************************)
(* ykman.cli: retrying_connect                                             *)
(***************************************************************************)
\* The default of the parameter attempts.
DEFAULT_ATTEMPTS == 10

\* What a call ended with: a value returned or an exception raised.
Returned(value) == [raised |-> "", value |-> value]
Raised(exc) == [raised |-> exc, value |-> ""]

\* "except Exception" catches the exceptions deriving from Exception;
\* KeyboardInterrupt and SystemExit derive from BaseException only.
IsException(exc) == exc \notin {"KeyboardInterrupt", "SystemExit"}

\* retrying_connect(serial, interfaces, attempts) up to its first
\* connect_to_device
retrying_connect(n) ==
    /\ retryPc \in {"idle", "done"}
    /\ retryPc' = "connect"
    /\ retryAttempts' = n
    /\ retryArg' = n
    /\ retryCalls' = <<>>
    /\ retryOut' = Returned("")

\* connect_to_device returns: "return connect_to_device(...)"
ConnectReturns(result) ==
    /\ retryPc = "connect"
    /\ retryCalls' = Append(retryCalls, Returned(result))
    /\ retryPc' = "done"
    /\ retryOut' = Returned(result)
    /\ UNCHANGED <<retryAttempts, retryArg>>

\* The handler going to sleep without counting the attempt.
Mutant_ConnectRaises(exc) ==
    /\ retryPc = "connect"
    /\ retryCalls' = Append(retryCalls, Raised(exc))
    /\ UNCHANGED retryArg
    /\ IF IsException(exc) /\ retryAttempts # 0
       THEN /\ retryPc' = "sleep"
            /\ UNCHANGED <<retryAttempts, retryOut>>
       ELSE /\ retryPc' = "done"
            /\ retryOut' = Raised(exc)
            /\ UNCHANGED retryAttempts

\* connect_to_device raises: the handler of "except Exception as e" up to
\* time.sleep, or the exception leaving the call.
ConnectRaises(exc) ==
    /\ retryPc = "connect"
    /\ retryCalls' = Append(retryCalls, Raised(exc))
    /\ UNCHANGED retryArg
    /\ IF IsException(exc) /\ retryAttempts # 0
       THEN /\ retryAttempts' = retryAttempts - 1
            /\ retryPc' = "sleep"
            /\ UNCHANGED retryOut
       ELSE /\ retryPc' = "done"
            /\ retryOut' = Raised(exc)
            /\ UNCHANGED retryAttempts

\* time.sleep(0.5) returns, and the loop calls connect_to_device again.
SleepReturns ==
    /\ retryPc = "sleep"
    /\ retryPc' = "connect"
    /\ UNCHANGED <<retryAttempts, retryArg, retryCalls, retryOut>>

\* The inputs: the attempts a caller allows, the devices connect_to_device
\* may return and the exceptions it may raise.
RetryAttempts == {0, 1, 3, DEFAULT_ATTEMPTS}
RetryResults == {"device 1", "device 2"}
RetryExceptions == {"ValueError", "OSError", "KeyboardInterrupt"}

RetryInit ==
    /\ retryPc = "idle"
    /\ retryAttempts = 0
    /\ retryArg = 0
    /\ retryCalls = <<>>
    /\ retryOut = Returned("")
RetryIdle == RetryInit

RetryNext ==
    \/ \E n \in RetryAttempts : retrying_connect(n) /\ UNCHANGED notRetry
    \/ \E result \in RetryResults : ConnectReturns(result) /\ UNCHANGED notRetry
    \/ \E exc \in RetryExceptions : ConnectRaises(exc) /\ UNCHANGED notRetry
    \/ SleepReturns /\ UNCHANGED notRetry

\* connect_to_device and time.sleep end; retrying_connect goes on from them.
RetryReturn ==
    \/ \E result \in RetryResults : ConnectReturns(result) /\ UNCHANGED notRetry
    \/ \E exc \in RetryExceptions : ConnectRaises(exc) /\ UNCHANGED notRetry
    \/ SleepReturns /\ UNCHANGED notRetry

(***************************************************************************)
(* Device references: open_connection                                      *)
(***************************************************************************)
\* The USB product ids of the FIDO-capable devices of this model.
FidoPids ==
    [NEO_FIDO |-> \H0113, SKY_FIDO |-> \H0120, YK4_OTP_FIDO |-> \H0403,
     YK4_FIDO_CCID |-> \H0406]

\* The classes of device references and their method resolution order, from
\* the class statements: class YubiKeyDevice(abc.ABC) and
\* class CtapYubiKeyDevice(YubiKeyDevice).
ClassMro(cls) ==
    IF cls = "CtapYubiKeyDevice"
    THEN <<"CtapYubiKeyDevice", "YubiKeyDevice", "ABC", "object">>
    ELSE <<"YubiKeyDevice", "ABC", "object">>
isinstance(device, cls) ==
    \E i \in 1..Len(ClassMro(device.cls)) : ClassMro(device.cls)[i] = cls

\* The classes a connection class derives from, itself included:
\* fido2.hid.CtapHidDevice is a fido2.ctap.CtapDevice.
ConnectionMro(cls) ==
    IF cls = "CtapHidDevice" THEN {"CtapHidDevice", "CtapDevice", "object"}
    ELSE {cls, "Connection", "ABC", "object"}
issubclass(cls, base) == base \in ConnectionMro(cls)

\* YubiKeyDevice(transport, fingerprint, pid), and
\* CtapYubiKeyDevice(descriptor) with its descriptor kept.
YubiKeyDevice(transport, fingerprint, pid) ==
    [cls |-> "YubiKeyDevice", transport |-> transport,
     fingerprint |-> fingerprint, pid |-> pid,
     descriptor |-> [path |-> "", pid |-> 0]]
CtapYubiKeyDevice(descriptor) ==
    [cls |-> "CtapYubiKeyDevice", transport |-> "USB",
     fingerprint |-> descriptor.path, pid |-> descriptor.pid,
     descriptor |-> descriptor]

\* supports_connection(connection_type) of the device's class
supports_connection(device, connection_type) ==
    IF device.cls = "CtapYubiKeyDevice"
    THEN issubclass("CtapHidDevice", connection_type)
    ELSE FALSE

\* What open_connection ends with: an exception or the connection opened.
Opened(connection) == [raised |-> "", connection |-> Some(connection)]
NotOpened(exc) == [raised |-> exc, connection |-> None]

\* YubiKeyDevice.open_connection(connection_type)
YubiKeyDevice_open_connection(device, connection_type) ==
    NotOpened("ValueError")

\* super(cls, device).open_connection(connection_type): super() takes an
\* object that is an instance of cls, and raises TypeError for another one.
\* After each class of this model the next open_connection in the order is
\* that of YubiKeyDevice.
super_open_connection(cls, device, connection_type) ==
    IF ~isinstance(device, cls) THEN NotOpened("TypeError")
    ELSE YubiKeyDevice_open_connection(device, connection_type)

\* CtapYubiKeyDevice.open_connection(connection_type); fido2's
\* open_connection(descriptor) returns a handle or raises os_error.
CtapYubiKeyDevice_open_connection(device, connection_type, os_error) ==
    IF supports_connection(device, connection_type)
    THEN IF os_error # "" THEN NotOpened(os_error)
         ELSE Opened([cls |-> "CtapHidDevice",
                      descriptor |-> device.descriptor])
    ELSE super_open_connection("OtpYubiKeyDevice", device, connection_type)

DevCall(op, device, connection_type, supported, result) ==
    [op |-> op, device |-> device, connection_type |-> connection_type,
     supported |-> supported, raised |-> result.raised,
     connection |-> result.connection]

\* device.open_connection(connection_type), by the class of the device
open_connection(device, connection_type, os_error) ==
    devCall' =
        DevCall("open_connection", device, connection_type,
                supports_connection(device, connection_type),
                IF device.cls = "CtapYubiKeyDevice"
                THEN CtapYubiKeyDevice_open_connection(device, connection_type,
                                                       os_error)
                ELSE YubiKeyDevice_open_connection(device, connection_type))

\* The inputs: the HID descriptors found, the device references made of
\* them by either class, the connection types asked for.
DevPaths == {"/dev/hidraw0", "/dev/hidraw1", "/dev/hidraw2"}
DevDescriptors ==
    {[path |-> path, pid |-> FidoPids[n]] :
        path \in DevPaths, n \in DOMAIN FidoPids}
DevDevices ==
    {CtapYubiKeyDevice(d) : d \in DevDescriptors}
        \cup {YubiKeyDevice("USB", d.path, d.pid) : d \in DevDescriptors}
ConnectionTypes ==
    {"CtapHidDevice", "CtapDevice", "object", "SmartCardConnection",
     "OtpConnection"}

DevInit ==
    devCall = DevCall("__init__", YubiKeyDevice("USB", "", 0), "", FALSE,
                      NotOpened(""))
DevIdle == DevInit

DevNext ==
    \E device \in DevDevices, connection_type \in ConnectionTypes,
       os_error \in {"", "OSError"} :
        open_connection(device, connection_type, os_error)
            /\ UNCHANGED notDev

(***************************************************************************)
(* Specifications, one per component                                       *)
(***************************************************************************)
\* A PivSession under any sequence of PIN/PUK calls.
SpecPinInit ==
    /\ PinInit
    /\ RfIdle
    /\ TlvIdle
    /\ AuthIdle
    /\ MgmtIdle
    /\ KeyIdle
    /\ OathIdle
    /\ LockIdle
    /\ ProtoIdle
    /\ ResetIdle
    /\ CredIdle
    /\ CalcIdle
    /\ MgmKeyIdle
    /\ PinArgsIdle
    /\ PutIdle
    /\ RenameIdle
    /\ InfoIdle
    /\ SlotIdle
    /\ OrderIdle
    /\ ListIdle
    /\ ScIdle
    /\ SignIdle
    /\ RetryIdle
    /\ DevIdle
SpecPin == SpecPinInit /\ [][PinNext]_vars

\* _retries_from_sw applied to one argument pair.
SpecRetriesInit ==
    /\ PinIdle
    /\ RfInit
    /\ TlvIdle
    /\ AuthIdle
    /\ MgmtIdle
    /\ KeyIdle
    /\ OathIdle
    /\ LockIdle
    /\ ProtoIdle
    /\ ResetIdle
    /\ CredIdle
    /\ CalcIdle
    /\ MgmKeyIdle
    /\ PinArgsIdle
    /\ PutIdle
    /\ RenameIdle
    /\ InfoIdle
    /\ SlotIdle
    /\ OrderIdle
    /\ ListIdle
    /\ ScIdle
    /\ SignIdle
    /\ RetryIdle
    /\ DevIdle
SpecRetries == SpecRetriesInit /\ [][RfNext]_vars

\* Tlv objects built from (tag, value) and parsed from bytes.
SpecTlvInit ==
    /\ PinIdle
    /\ RfIdle
    /\ (TlvInitBuild \/ TlvInitRaw)
    /\ AuthIdle
    /\ MgmtIdle
    /\ KeyIdle
    /\ OathIdle
    /\ LockIdle
    /\ ProtoIdle
    /\ ResetIdle
    /\ CredIdle
    /\ CalcIdle
    /\ MgmKeyIdle
    /\ PinArgsIdle
    /\ PutIdle
    /\ RenameIdle
    /\ InfoIdle
    /\ SlotIdle
    /\ OrderIdle
    /\ ListIdle
    /\ ScIdle
    /\ SignIdle
    /\ RetryIdle
    /\ DevIdle
SpecTlv == SpecTlvInit /\ [][TlvNext]_vars

\* PivSession.authenticate against any card.
SpecAuthInit ==
    /\ PinIdle
    /\ RfIdle
    /\ TlvIdle
    /\ AuthIdle
    /\ MgmtIdle
    /\ KeyIdle
    /\ OathIdle
    /\ LockIdle
    /\ ProtoIdle
    /\ ResetIdle
    /\ CredIdle
    /\ CalcIdle
    /\ MgmKeyIdle
    /\ PinArgsIdle
    /\ PutIdle
    /\ RenameIdle
    /\ InfoIdle
    /\ SlotIdle
    /\ OrderIdle
    /\ ListIdle
    /\ ScIdle
    /\ SignIdle
    /\ RetryIdle
    /\ DevIdle
SpecAuth == SpecAuthInit /\ [][AuthNext]_vars

\* A ManagementSession under any sequence of reads and writes.
SpecMgmtInit ==
    /\ MgmtInit
    /\ PinIdle
    /\ RfIdle
    /\ TlvIdle
    /\ AuthIdle
    /\ KeyIdle
    /\ OathIdle
    /\ LockIdle
    /\ ProtoIdle
    /\ ResetIdle
    /\ CredIdle
    /\ CalcIdle
    /\ MgmKeyIdle
    /\ PinArgsIdle
    /\ PutIdle
    /\ RenameIdle
    /\ InfoIdle
    /\ SlotIdle
    /\ OrderIdle
    /\ ListIdle
    /\ ScIdle
    /\ SignIdle
    /\ RetryIdle
    /\ DevIdle
SpecMgmt == SpecMgmtInit /\ [][MgmtNext]_vars

\* generate_key and put_key on a PivSession of any firmware.
SpecKeyInit ==
    /\ KeyInit
    /\ RfIdle
    /\ TlvIdle
    /\ AuthIdle
    /\ MgmtIdle
    /\ OathIdle
    /\ LockIdle
    /\ ProtoIdle
    /\ ResetIdle
    /\ CredIdle
    /\ CalcIdle
    /\ MgmKeyIdle
    /\ PinArgsIdle
    /\ PutIdle
    /\ RenameIdle
    /\ InfoIdle
    /\ SlotIdle
    /\ OrderIdle
    /\ ListIdle
    /\ ScIdle
    /\ SignIdle
    /\ RetryIdle
    /\ DevIdle
SpecKey == SpecKeyInit /\ [][KeyNext]_vars

\* OathSession.calculate_all against any device.
SpecOathInit ==
    /\ PinIdle
    /\ RfIdle
    /\ TlvIdle
    /\ AuthIdle
    /\ MgmtIdle
    /\ KeyIdle
    /\ OathIdle
    /\ LockIdle
    /\ ProtoIdle
    /\ ResetIdle
    /\ CredIdle
    /\ CalcIdle
    /\ MgmKeyIdle
    /\ PinArgsIdle
    /\ PutIdle
    /\ RenameIdle
    /\ InfoIdle
    /\ SlotIdle
    /\ OrderIdle
    /\ ListIdle
    /\ ScIdle
    /\ SignIdle
    /\ RetryIdle
    /\ DevIdle
SpecOath == SpecOathInit /\ [][OathNext]_vars

\* An OathSession's password lock against any device.
SpecLockInit ==
    /\ PinIdle
    /\ RfIdle
    /\ TlvIdle
    /\ AuthIdle
    /\ MgmtIdle
    /\ KeyIdle
    /\ OathIdle
    /\ LockInit
    /\ ProtoIdle
    /\ ResetIdle
    /\ CredIdle
    /\ CalcIdle
    /\ MgmKeyIdle
    /\ PinArgsIdle
    /\ PutIdle
    /\ RenameIdle
    /\ InfoIdle
    /\ SlotIdle
    /\ OrderIdle
    /\ ListIdle
    /\ ScIdle
    /\ SignIdle
    /\ RetryIdle
    /\ DevIdle
SpecLock == SpecLockInit /\ [][LockNext]_vars

\* SmartCardProtocol.send_apdu against any device.
SpecProtoInit ==
    /\ PinIdle
    /\ RfIdle
    /\ TlvIdle
    /\ AuthIdle
    /\ MgmtIdle
    /\ KeyIdle
    /\ OathIdle
    /\ LockIdle
    /\ ProtoInit
    /\ ResetIdle
    /\ CredIdle
    /\ CalcIdle
    /\ MgmKeyIdle
    /\ PinArgsIdle
    /\ PutIdle
    /\ RenameIdle
    /\ InfoIdle
    /\ SlotIdle
    /\ OrderIdle
    /\ ListIdle
    /\ ScIdle
    /\ SignIdle
    /\ RetryIdle
    /\ DevIdle
SpecProto == SpecProtoInit /\ [][ProtoNext]_vars

\* PivSession.reset against any device, after PIN/PUK calls on the session.
SpecResetInit ==
    /\ ResetInit
    /\ RfIdle
    /\ TlvIdle
    /\ AuthIdle
    /\ MgmtIdle
    /\ KeyIdle
    /\ OathIdle
    /\ LockIdle
    /\ ProtoIdle
    /\ CredIdle
    /\ CalcIdle
    /\ MgmKeyIdle
    /\ PinArgsIdle
    /\ PutIdle
    /\ RenameIdle
    /\ InfoIdle
    /\ SlotIdle
    /\ OrderIdle
    /\ ListIdle
    /\ ScIdle
    /\ SignIdle
    /\ RetryIdle
    /\ DevIdle
SpecReset == SpecResetInit /\ [][ResetNext]_vars

\* CredentialData.get_id on any credential.
SpecCredInit ==
    /\ CredInit
    /\ RfIdle
    /\ TlvIdle
    /\ AuthIdle
    /\ MgmtIdle
    /\ KeyIdle
    /\ OathIdle
    /\ LockIdle
    /\ ProtoIdle
    /\ PinIdle
    /\ ResetIdle
    /\ CalcIdle
    /\ MgmKeyIdle
    /\ PinArgsIdle
    /\ PutIdle
    /\ RenameIdle
    /\ InfoIdle
    /\ SlotIdle
    /\ OrderIdle
    /\ ListIdle
    /\ ScIdle
    /\ SignIdle
    /\ RetryIdle
    /\ DevIdle
SpecCred == SpecCredInit /\ [][CredNext]_vars

\* OathSession.calculate_code called by the user, against any device.
SpecCalcInit ==
    /\ CalcInit
    /\ RfIdle
    /\ TlvIdle
    /\ AuthIdle
    /\ MgmtIdle
    /\ KeyIdle
    /\ OathIdle
    /\ LockIdle
    /\ ProtoIdle
    /\ PinIdle
    /\ ResetIdle
    /\ CredIdle
    /\ MgmKeyIdle
    /\ PinArgsIdle
    /\ PutIdle
    /\ RenameIdle
    /\ InfoIdle
    /\ SlotIdle
    /\ OrderIdle
    /\ ListIdle
    /\ ScIdle
    /\ SignIdle
    /\ RetryIdle
    /\ DevIdle
SpecCalc == SpecCalcInit /\ [][CalcNext]_vars

\* set_management_key and authenticate with keys of any length.
SpecMgmKeyInit ==
    /\ MgmKeyInit
    /\ RfIdle
    /\ TlvIdle
    /\ AuthIdle
    /\ MgmtIdle
    /\ KeyIdle
    /\ OathIdle
    /\ LockIdle
    /\ ProtoIdle
    /\ PinIdle
    /\ ResetIdle
    /\ CredIdle
    /\ CalcIdle
    /\ PinArgsIdle
    /\ PutIdle
    /\ RenameIdle
    /\ InfoIdle
    /\ SlotIdle
    /\ OrderIdle
    /\ ListIdle
    /\ ScIdle
    /\ SignIdle
    /\ RetryIdle
    /\ DevIdle
SpecMgmKey == SpecMgmKeyInit /\ [][MgmKeyNext]_vars

\* The PIN/PUK calls of a PivSession, with the values they were given.
SpecPinArgsInit ==
    /\ PinArgsInit
    /\ RfIdle
    /\ TlvIdle
    /\ AuthIdle
    /\ MgmtIdle
    /\ KeyIdle
    /\ OathIdle
    /\ LockIdle
    /\ ProtoIdle
    /\ ResetIdle
    /\ CredIdle
    /\ CalcIdle
    /\ MgmKeyIdle
    /\ PutIdle
    /\ RenameIdle
    /\ InfoIdle
    /\ SlotIdle
    /\ OrderIdle
    /\ ListIdle
    /\ ScIdle
    /\ SignIdle
    /\ RetryIdle
    /\ DevIdle
SpecPinArgs == SpecPinArgsInit /\ [][PinArgsNext]_vars

\* An OATH session whose caller makes CredentialData, puts and renames.
SpecPutInit ==
    /\ PutInit
    /\ PinIdle
    /\ RfIdle
    /\ TlvIdle
    /\ AuthIdle
    /\ MgmtIdle
    /\ KeyIdle
    /\ OathIdle
    /\ LockIdle
    /\ ProtoIdle
    /\ ResetIdle
    /\ CredIdle
    /\ CalcIdle
    /\ MgmKeyIdle
    /\ PinArgsIdle
    /\ RenameIdle
    /\ InfoIdle
    /\ SlotIdle
    /\ OrderIdle
    /\ ListIdle
    /\ ScIdle
    /\ SignIdle
    /\ RetryIdle
    /\ DevIdle
SpecPut == SpecPutInit /\ [][PutNext]_vars

\* rename_credential on any firmware.
SpecRenameInit ==
    /\ RenameInit
    /\ PinIdle
    /\ RfIdle
    /\ TlvIdle
    /\ AuthIdle
    /\ MgmtIdle
    /\ KeyIdle
    /\ OathIdle
    /\ LockIdle
    /\ ProtoIdle
    /\ ResetIdle
    /\ CredIdle
    /\ CalcIdle
    /\ MgmKeyIdle
    /\ PinArgsIdle
    /\ PutIdle
    /\ InfoIdle
    /\ SlotIdle
    /\ OrderIdle
    /\ ListIdle
    /\ ScIdle
    /\ SignIdle
    /\ RetryIdle
    /\ DevIdle
SpecRename == SpecRenameInit /\ [][RenameNext]_vars

\* Device info read from any response, directly and over the OTP backend.
SpecInfoInit ==
    /\ InfoInit
    /\ PinIdle
    /\ RfIdle
    /\ TlvIdle
    /\ AuthIdle
    /\ MgmtIdle
    /\ KeyIdle
    /\ OathIdle
    /\ LockIdle
    /\ ProtoIdle
    /\ ResetIdle
    /\ CredIdle
    /\ CalcIdle
    /\ MgmKeyIdle
    /\ PinArgsIdle
    /\ PutIdle
    /\ RenameIdle
    /\ SlotIdle
    /\ OrderIdle
    /\ ListIdle
    /\ ScIdle
    /\ SignIdle
    /\ RetryIdle
    /\ DevIdle
SpecInfo == SpecInfoInit /\ [][InfoNext]_vars

\* Object ids looked up by slot, two calls on record.
SpecSlotInit ==
    /\ SlotInit
    /\ PinIdle
    /\ RfIdle
    /\ TlvIdle
    /\ AuthIdle
    /\ MgmtIdle
    /\ KeyIdle
    /\ OathIdle
    /\ LockIdle
    /\ ProtoIdle
    /\ ResetIdle
    /\ CredIdle
    /\ CalcIdle
    /\ MgmKeyIdle
    /\ PinArgsIdle
    /\ PutIdle
    /\ RenameIdle
    /\ InfoIdle
    /\ OrderIdle
    /\ ListIdle
    /\ ScIdle
    /\ SignIdle
    /\ RetryIdle
    /\ DevIdle
SpecSlot == SpecSlotInit /\ [][SlotNext]_vars

\* Credentials compared two by two.
SpecOrderInit ==
    /\ OrderInit
    /\ PinIdle
    /\ RfIdle
    /\ TlvIdle
    /\ AuthIdle
    /\ MgmtIdle
    /\ KeyIdle
    /\ OathIdle
    /\ LockIdle
    /\ ProtoIdle
    /\ ResetIdle
    /\ CredIdle
    /\ CalcIdle
    /\ MgmKeyIdle
    /\ PinArgsIdle
    /\ PutIdle
    /\ RenameIdle
    /\ InfoIdle
    /\ SlotIdle
    /\ ListIdle
    /\ ScIdle
    /\ SignIdle
    /\ RetryIdle
    /\ DevIdle
SpecOrder == SpecOrderInit /\ [][OrderNext]_vars

\* The bytes of up to MaxParts Tlv objects parsed as a list and as a dict.
SpecListInit ==
    /\ ListInit
    /\ PinIdle
    /\ RfIdle
    /\ TlvIdle
    /\ AuthIdle
    /\ MgmtIdle
    /\ KeyIdle
    /\ OathIdle
    /\ LockIdle
    /\ ProtoIdle
    /\ ResetIdle
    /\ CredIdle
    /\ CalcIdle
    /\ MgmKeyIdle
    /\ PinArgsIdle
    /\ PutIdle
    /\ RenameIdle
    /\ InfoIdle
    /\ SlotIdle
    /\ OrderIdle
    /\ ScIdle
    /\ SignIdle
    /\ RetryIdle
    /\ DevIdle
SpecList == SpecListInit /\ [][ListNext]_vars

\* The smart-card backend's set_mode, one device round-trip at a time.
SpecScInit ==
    /\ ScInit
    /\ ListIdle
    /\ PinIdle
    /\ RfIdle
    /\ TlvIdle
    /\ AuthIdle
    /\ MgmtIdle
    /\ KeyIdle
    /\ OathIdle
    /\ LockIdle
    /\ ProtoIdle
    /\ ResetIdle
    /\ CredIdle
    /\ CalcIdle
    /\ MgmKeyIdle
    /\ PinArgsIdle
    /\ PutIdle
    /\ RenameIdle
    /\ InfoIdle
    /\ SlotIdle
    /\ OrderIdle
    /\ SignIdle
    /\ RetryIdle
    /\ DevIdle
SpecSc == SpecScInit /\ [][ScNext]_vars

\* sign called with any key type, hash algorithm and message.
SpecSignInit ==
    /\ SignInit
    /\ ScIdle
    /\ ListIdle
    /\ PinIdle
    /\ RfIdle
    /\ TlvIdle
    /\ AuthIdle
    /\ MgmtIdle
    /\ KeyIdle
    /\ OathIdle
    /\ LockIdle
    /\ ProtoIdle
    /\ ResetIdle
    /\ CredIdle
    /\ CalcIdle
    /\ MgmKeyIdle
    /\ PinArgsIdle
    /\ PutIdle
    /\ RenameIdle
    /\ InfoIdle
    /\ SlotIdle
    /\ OrderIdle
    /\ RetryIdle
    /\ DevIdle
SpecSign == SpecSignInit /\ [][SignNext]_vars

\* retrying_connect called with any allowance of attempts, connect_to_device returning or raising.
SpecRetryInit ==
    /\ RetryInit
    /\ SignIdle
    /\ ScIdle
    /\ ListIdle
    /\ PinIdle
    /\ RfIdle
    /\ TlvIdle
    /\ AuthIdle
    /\ MgmtIdle
    /\ KeyIdle
    /\ OathIdle
    /\ LockIdle
    /\ ProtoIdle
    /\ ResetIdle
    /\ CredIdle
    /\ CalcIdle
    /\ MgmKeyIdle
    /\ PinArgsIdle
    /\ PutIdle
    /\ RenameIdle
    /\ InfoIdle
    /\ SlotIdle
    /\ OrderIdle
    /\ DevIdle
SpecRetry == SpecRetryInit /\ [][RetryNext]_vars
\* The same with connect_to_device and time.sleep always ending.
SpecRetryLive == SpecRetryInit /\ [][RetryNext]_vars /\ WF_vars(RetryReturn)

\* open_connection called on any device reference with any connection type.
SpecDevInit ==
    /\ DevInit
    /\ RetryIdle
    /\ SignIdle
    /\ ScIdle
    /\ ListIdle
    /\ PinIdle
    /\ RfIdle
    /\ TlvIdle
    /\ AuthIdle
    /\ MgmtIdle
    /\ KeyIdle
    /\ OathIdle
    /\ LockIdle
    /\ ProtoIdle
    /\ ResetIdle
    /\ CredIdle
    /\ CalcIdle
    /\ MgmKeyIdle
    /\ PinArgsIdle
    /\ PutIdle
    /\ RenameIdle
    /\ InfoIdle
    /\ SlotIdle
    /\ OrderIdle
SpecDev == SpecDevInit /\ [][DevNext]_vars

(***************************************************************************)
(* Properties                                                              *)
(***************************************************************************)
PinOps == {"verify_pin", "change_pin", "change_puk", "unblock_pin"}

\* Firmware before 1.0.4, spelled out on the three components.
Before104(ver) == ver[1] < 1 \/ (ver[1] = 1 /\ ver[2] = 0 /\ ver[3] < 4)

\* The count a status word encodes, as the specification states it.
EncodedCount(ver, sw) ==
    IF sw = \H6983 THEN Some(0)
    ELSE IF Before104(ver) /\ sw \in \H6300..\H63FF THEN Some(sw - \H6300)
    ELSE IF ~Before104(ver) /\ sw \in \H63C0..\H63CF THEN Some(sw - \H63C0)
    ELSE None

\* C1: when the device answers verify_pin, change_pin, change_puk or
\* unblock_pin with an error status word, the call raises InvalidPinError
\* carrying the encoded count (0 for 0x6983) if the status word encodes one,
\* and otherwise the ApduError propagates with the same status word and
\* _current_pin_retries keeps the value it had before the call.
C1_PinErrorTranslation ==
    (pivCall.op \in PinOps /\ pivCall.sent # <<>> /\ pivCall.sw # SW.OK) =>
        IF EncodedCount(version, pivCall.sw) # None
        THEN /\ pivCall.raised = "InvalidPinError"
             /\ pivCall.attempts_remaining = EncodedCount(version, pivCall.sw)
        ELSE /\ pivCall.raised = "ApduError"
             /\ pivCall.error_sw = Some(pivCall.sw)
             /\ _current_pin_retries = pivCall.before

\* C1 witness: verify_pin answered 0x6983 after an earlier failure raised
\* InvalidPinError with no attempts left.
C1_Witness ==
    /\ pivCall.op = "verify_pin"
    /\ pivCall.sw = SW.AUTH_METHOD_BLOCKED
    /\ pivCall.raised = "InvalidPinError"
    /\ pivCall.attempts_remaining = Some(0)
    /\ pivCall.before = 2

\* C2: after a successful verify_pin, change_pin, change_puk or unblock_pin
\* the cached estimate equals the cached maximum.
C2_SuccessResetsEstimate ==
    (pivCall.op \in PinOps /\ pivCall.sent # <<>> /\ pivCall.raised = "") =>
        _current_pin_retries = _max_pin_retries

\* C3: _retries_from_sw gives 0 for 0x6983, the low byte of 0x63xx before
\* firmware 1.0.4, the low nibble of 0x63Cx from 1.0.4 on, and None for every
\* other status word.
C3_RetriesFromSw ==
    rfOut.done => rfOut.val = EncodedCount(rfIn.version, rfIn.sw)

\* C3 witness: 0x63C5 on firmware 5.2.7 decoded to 5.
C3_Witness ==
    /\ rfOut.done
    /\ rfIn = [version |-> <<5, 2, 7>>, sw |-> \H63C5]
    /\ rfOut.val = Some(5)

\* The lengths the round trip is stated for.
RoundTripLengths == {0, 1, 127, 128, 255, 65535}

\* The length octets of a value of n bytes: n itself below 128, else 0x80 | k
\* and the k bytes of n, k minimal.
LengthPrefix(n) ==
    IF n < 128 THEN <<n>>
    ELSE IF n < 256 THEN <<129, n>>
    ELSE IF n < 65536 THEN <<130, n \div 256, n % 256>>
    ELSE <<131, n \div 65536, (n \div 256) % 256, n % 256>>

\* The bytes of a tag of one or two bytes.
TagOctets(tag) == IF tag < 256 THEN <<tag>> ELSE <<tag \div 256, tag % 256>>

\* A BER tag of one byte (low five bits not all set) or of two bytes (low five
\* bits of the first all set, high bit of the second clear).
WellFormedTag(tag) ==
    \/ tag < 256 /\ tag % 32 # 31
    \/ tag >= 256 /\ tag < 65536 /\ (tag \div 256) % 32 = 31 /\ tag % 256 < 128

\* Tlv(tag, value), Tlv(bytes) and parse_from all gave the tag and the value
\* back, nothing was left over, and the bytes are tag, length octets, value.
RoundTripHolds ==
    /\ tlvRes.raised = ""
    /\ tlvRes.tag = TagOctets(tlvTag)
    /\ tlvRes.value = tlvValue
    /\ tlvRes.length = Len(tlvValue)
    /\ tlvRes.rest = <<>>
    /\ tlvData = TagOctets(tlvTag) \o LengthPrefix(Len(tlvValue)) \o tlvValue

\* C5 as stated: for every tag that is an integer of one or two bytes and every
\* value of a length in {0, 1, 127, 128, 255, 65535}, building Tlv(tag, value)
\* and parsing its bytes back gives the same tag and value with nothing left
\* over, with the length octets described.
C5_RoundTripAnyTag ==
    (/\ tlvMode \in {"built", "failed"}
     /\ Len(tlvValue) \in RoundTripLengths
     /\ tlvRes.op \in {"Tlv(tag, value)", "Tlv(data)", "parse_from"})
        => RoundTripHolds

\* C5 amended: the same for every well-formed BER tag of one or two bytes.
C5_RoundTrip ==
    (/\ tlvMode \in {"built", "failed"}
     /\ WellFormedTag(tlvTag)
     /\ tlvRes.op \in {"Tlv(tag, value)", "Tlv(data)", "parse_from"})
        => RoundTripHolds

\* C5 witness: a 65535-byte value under the two-byte tag 0x7F49 came back from
\* parse_from.
C5_Witness ==
    /\ tlvMode = "built"
    /\ tlvTag = \H7F49
    /\ Len(tlvValue) = 65535
    /\ tlvRes.op = "parse_from"
    /\ tlvRes.raised = ""
    /\ tlvRes.value = tlvValue
    /\ SubSeq(tlvData, 1, 5) = <<\H7F, \H49, \H82, \HFF, \HFF>>

\* A buffer of a one-byte tag and a header that declares more than follows:
\* value bytes missing (short form) or length bytes missing (long form).
Truncated(data) ==
    /\ Len(data) >= 2
    /\ data[1] % 32 # 31
    /\ \/ data[2] < 128 /\ Len(data) - 2 < data[2]
       \/ data[2] > 128 /\ Len(data) - 2 < data[2] - 128

\* C6: parsing a buffer shorter than its header declares fails with a decoding
\* error in Tlv(data), parse_from, parse_list and unwrap, and every Tlv object
\* has length = len(value).
C6_ShortBufferRejected ==
    tlvMode = "raw" =>
        /\ (tlvRes.op \in {"Tlv(data)", "parse_from", "parse_list", "unwrap"}
            /\ Truncated(tlvData)) => tlvRes.raised = "ValueError"
        /\ (tlvRes.op \in {"Tlv(data)", "parse_from"} /\ tlvRes.raised = "")
               => tlvRes.length = Len(tlvRes.value)

\* The value the card's answer number n carries under TAG_DYN_AUTH and tag.
AuthValue(n, tag) == unwrap(tag, unwrap(TAG_DYN_AUTH, authRecv[n]).val)
\* The objects the reply APDU carries under TAG_DYN_AUTH.
ReplyItems == parse_list(unwrap(TAG_DYN_AUTH, authSent[2].data).val).list

\* C4: authenticate sends the witness request first and the reply only after
\* the card's answer to it; the reply carries the witness decrypted under the
\* management key and an 8-byte host challenge; the call returns normally
\* only when the card's final response is the 3DES-ECB encryption of that
\* challenge under the management key, and raises BadResponseError for any
\* other well-formed final response.
C4_Authenticate ==
    /\ Len(authSent) <= 2
    /\ Len(authSent) >= 1 => authSent[1] = WitnessRequest
    /\ authPc = "witness_requested" => Len(authSent) = 1 /\ authRecv = <<>>
    /\ Len(authSent) = 2 =>
           /\ Len(authRecv) >= 1
           /\ authSent[2].ins = INS_AUTHENTICATE
           /\ Len(ReplyItems) = 2
           /\ TlvTagOf(ReplyItems[1]) = <<TAG_AUTH_WITNESS>>
           /\ TDesEncrypt(authKey, TlvValueOf(ReplyItems[1]))
                  = AuthValue(1, TAG_AUTH_WITNESS).val
           /\ TlvTagOf(ReplyItems[2]) = <<TAG_AUTH_CHALLENGE>>
           /\ TlvValueOf(ReplyItems[2]) = authChallenge
           /\ Len(authChallenge) = 8
    /\ (authPc = "done" /\ authRaised = "") =>
           /\ Len(authSent) = 2
           /\ Len(authRecv) = 2
           /\ AuthValue(2, TAG_AUTH_RESPONSE).raised = ""
           /\ AuthValue(2, TAG_AUTH_RESPONSE).val
                  = TDesEncrypt(authKey, authChallenge)
    /\ (authPc = "done" /\ Len(authRecv) = 2
            /\ AuthValue(2, TAG_AUTH_RESPONSE).raised = ""
            /\ AuthValue(2, TAG_AUTH_RESPONSE).val
                   # TDesEncrypt(authKey, authChallenge)) =>
           authRaised = "BadResponseError"

\* authenticate returned normally under a three-key management key.
C4_Witness ==
    /\ authPc = "done"
    /\ authRaised = ""
    /\ authKey = KeyB
    /\ Len(authSent) = 2
    /\ AuthValue(1, TAG_AUTH_WITNESS).val = [i \in 1..16 |-> 3 * i]

\* authenticate rejected a well-formed response that is not the encryption.
AuthRejected ==
    /\ authPc = "done"
    /\ authRaised = "BadResponseError"
    /\ AuthValue(2, TAG_AUTH_RESPONSE).val = TDesDecrypt(authKey, authChallenge)

\* The backend primitive a ManagementSession call delegates to.
Delegate(op) == IF op = "read_device_info" THEN "read_config" ELSE "write_config"
\* The firmware a ManagementSession call requires.
Required(op) == IF op = "read_device_info" THEN <<4, 1, 0>> ELSE <<5, 0, 0>>
GatedOps == {"read_device_info", "write_device_config"}
\* The call's configuration is one get_bytes refuses as too large.
TooLarge ==
    /\ mgmtCall.op = "write_device_config"
    /\ get_bytes(IF mgmtCall.args.config # None THEN mgmtCall.args.config[1]
                 ELSE DeviceConfig(None, None, None, None, None),
                 mgmtCall.args.reboot, mgmtCall.args.cur_lock_code,
                 mgmtCall.args.new_lock_code).raised = "NotSupportedError"

\* C7 as stated: read_device_info below 4.1.0 and write_device_config below
\* 5.0.0 raise NotSupportedError without invoking a backend primitive; at or
\* above those versions the call invokes its backend primitive exactly once.
C7_VersionGatesAlwaysDelegate ==
    mgmtCall.op \in GatedOps =>
        IF TupleLt(mgmtVersion, Required(mgmtCall.op))
        THEN mgmtCall.raised = "NotSupportedError" /\ mgmtBackend = <<>>
        ELSE /\ Len(mgmtBackend) = 1
             /\ mgmtBackend[1].op = Delegate(mgmtCall.op)

\* C7, amended: as above, except that at or above 5.0.0 write_device_config
\* raises NotSupportedError without invoking the backend when the encoded
\* configuration is longer than 255 bytes.
C7_VersionGates ==
    mgmtCall.op \in GatedOps =>
        IF TupleLt(mgmtVersion, Required(mgmtCall.op))
        THEN mgmtCall.raised = "NotSupportedError" /\ mgmtBackend = <<>>
        ELSE IF TooLarge
        THEN mgmtCall.raised = "NotSupportedError" /\ mgmtBackend = <<>>
        ELSE /\ Len(mgmtBackend) = 1
             /\ mgmtBackend[1].op = Delegate(mgmtCall.op)

\* A write on firmware 5.0.0 that reached the backend with a lock code.
C7_Witness ==
    /\ mgmtVersion = <<5, 0, 0>>
    /\ mgmtCall.op = "write_device_config"
    /\ mgmtCall.raised = ""
    /\ mgmtCall.args.cur_lock_code = Some([i \in 1..16 |-> i])
    /\ Len(mgmtBackend) = 1
    /\ mgmtBackend[1].arg[1] = Len(mgmtBackend[1].arg) - 1

\* ver < a.b.c, spelled out on the three components.
VerLt(ver, a, b, c) ==
    ver[1] < a \/ (ver[1] = a /\ (ver[2] < b \/ (ver[2] = b /\ ver[3] < c)))
IsRsa(key_type) == key_type \in {KEY_TYPE.RSA1024, KEY_TYPE.RSA2048}
\* The requests the firmware cannot support, as the specification lists them.
Unsupported(op, ver, key_type, pin_policy, touch_policy) ==
    \/ /\ VerLt(ver, 4, 0, 0)
       /\ \/ key_type = KEY_TYPE.ECCP384
          \/ pin_policy # PIN_POLICY.DEFAULT
          \/ touch_policy # TOUCH_POLICY.DEFAULT
    \/ touch_policy = TOUCH_POLICY.CACHED /\ VerLt(ver, 4, 3, 0)
    \/ /\ key_type = KEY_TYPE.RSA1024
       /\ ~VerLt(ver, 4, 4, 0)
       /\ VerLt(ver, 4, 5, 0)
    \/ /\ op = "generate_key"
       /\ IsRsa(key_type)
       /\ ~VerLt(ver, 4, 2, 0)
       /\ VerLt(ver, 4, 3, 5)

\* C8: generate_key and put_key raise NotSupportedError before sending any
\* APDU whenever the firmware cannot support the request (ECCP384 or a
\* non-default policy below 4.0.0, CACHED touch below 4.3.0, RSA1024 on
\* 4.4.x, and for generate_key any RSA type on 4.2.0 <= version < 4.3.5); on
\* firmware 5.x every KEY_TYPE with default policies passes the check.
C8_KeySupport ==
    (keyCall.op \in {"generate_key", "put_key"}
         /\ keyCall.key_type \in Members(KEY_TYPE)) =>
        /\ Unsupported(keyCall.op, version, keyCall.key_type,
                       keyCall.pin_policy, keyCall.touch_policy) =>
               keyCall.raised = "NotSupportedError" /\ keyCall.sent = <<>>
        /\ (version[1] = 5 /\ keyCall.pin_policy = PIN_POLICY.DEFAULT
                /\ keyCall.touch_policy = TOUCH_POLICY.DEFAULT) =>
               keyCall.raised # "NotSupportedError"

\* put_key of an RSA1024 key refused on FIPS firmware 4.4.1.
C8_Witness ==
    /\ version = <<4, 4, 1>>
    /\ keyCall.op = "put_key"
    /\ keyCall.key_type = KEY_TYPE.RSA1024
    /\ keyCall.touch_policy = TOUCH_POLICY.ALWAYS
    /\ keyCall.raised = "NotSupportedError"
    /\ keyCall.sent = <<>>

\* generate_key of an RSA key sent to the card on 4.3.5.
KeyGenerated ==
    /\ version = <<4, 3, 5>>
    /\ keyCall.op = "generate_key"
    /\ keyCall.key_type = KEY_TYPE.RSA2048
    /\ keyCall.raised = ""
    /\ Len(keyCall.sent) = 1

\* calculate_all returned its mapping.
OathReturned == oathPc = "done" /\ oathRaised = ""
\* The Tlv objects of the batch response, two per credential.
Batch == parse_list(oathRecv[1]).list
BatchTag(i) == TlvTagOf(Batch[2 * i])
BatchTruncated(i) == TlvValueOf(Batch[2 * i])
\* The places in oathSent of the CALCULATE commands naming an id.
CalculatesFor(id) ==
    {k \in 1..Len(oathSent) :
        /\ oathSent[k].ins = INS_CALCULATE
        /\ LET items == parse_list(oathSent[k].data).list
           IN  /\ Len(items) >= 1
               /\ TlvTagOf(items[1]) = <<TAG_NAME>>
               /\ TlvValueOf(items[1]) = id}

\* C9: in the mapping calculate_all returns, every credential the batch
\* response flags with the touch tag has no code, and no CALCULATE command
\* was sent for it, whatever its period.
C9_TouchSuppressed ==
    OathReturned =>
        \A i \in 1..Len(oathEntries) :
            BatchTag(i) = <<TAG_TOUCH>> =>
                /\ oathEntries[i].code = None
                /\ CalculatesFor(oathEntries[i].credential.id) = {}

\* The touch tag does set touch_required, and a touch-flagged credential of
\* the default period gets no code and no command.
TouchDefaultPeriod ==
    OathReturned =>
        \A i \in 1..Len(oathEntries) :
            /\ oathEntries[i].credential.touch_required
                   = (BatchTag(i) = <<TAG_TOUCH>>)
            /\ (BatchTag(i) = <<TAG_TOUCH>>
                    /\ oathEntries[i].credential.period = Some(30)) =>
                   /\ oathEntries[i].code = None
                   /\ CalculatesFor(oathEntries[i].credential.id) = {}

SelectCarriesChallenge ==
    Has(parse_dict(lockCall.select[1]).list, TAG_CHALLENGE)

\* The device's answer to VALIDATE is the HMAC of the host's challenge.
ValidateAnswered ==
    /\ lockCall.sw = SW.OK
    /\ unwrap(TAG_RESPONSE, lockCall.resp).raised = ""
    /\ unwrap(TAG_RESPONSE, lockCall.resp).val
           = _hmac_sha1(lockCall.key, lockCall.challenge)

\* C11: a session is locked exactly when its most recent SELECT response
\* (at construction or at a reset that returned) carried an unlock challenge
\* and no validate has succeeded since: validate(key) on a locked session
\* clears the lock exactly when the device answers 0x9000 with
\* HMAC-SHA1(key, host challenge), and a mismatching response
\* (BadResponseError), a malformed one or an error status word leaves the
\* session locked with the same challenge; set_key, unset_key and a reset
\* that raises leave the lock as it was.
C11_LockedState ==
    /\ (lockCall.op = "__init__" \/ (lockCall.op = "reset" /\ lockCall.raised = ""))
           => (locked <=> SelectCarriesChallenge)
    /\ (lockCall.op = "validate" /\ lockCall.before # None)
           => /\ ValidateAnswered <=> ~locked
              /\ ValidateAnswered <=> lockCall.raised = ""
              /\ ~ValidateAnswered => _challenge = lockCall.before
              /\ (lockCall.sw = SW.OK
                     /\ unwrap(TAG_RESPONSE, lockCall.resp).raised = ""
                     /\ ~ValidateAnswered)
                     => lockCall.raised = "BadResponseError"
    /\ (\/ lockCall.op \in {"set_key", "unset_key"}
        \/ (lockCall.op = "reset" /\ lockCall.raised # "")
        \/ (lockCall.op = "validate" /\ lockCall.before = None))
           => _challenge = lockCall.before

\* A locked session was unlocked by a validate the device answered correctly.
C11_Witness ==
    /\ lockCall.op = "validate"
    /\ lockCall.before # None
    /\ lockCall.raised = ""
    /\ ~locked

\* A validate on a locked session ended with BadResponseError.
LockBadResponse ==
    /\ lockCall.op = "validate"
    /\ lockCall.raised = "BadResponseError"
    /\ locked

\* The number of frames a command of n data bytes takes, and the data of the
\* i-th of them: 255 bytes each but the last.
ChunkCount(n) == IF n = 0 THEN 1 ELSE (n + 254) \div 255
ChunkOf(data, i) ==
    SubSeq(data, 255 * (i - 1) + 1,
           IF 255 * i < Len(data) THEN 255 * i ELSE Len(data))
RECURSIVE ConcatData(_)
ConcatData(items) ==
    IF Len(items) = 0 THEN <<>> ELSE items[1].data \o ConcatData(Tail(items))

\* The frames of the wire that carry the command of the call.
CommandFrames ==
    SubSeq(protoWire, 1,
           IF Len(protoWire) < ChunkCount(Len(protoCall.data))
           THEN Len(protoWire) ELSE ChunkCount(Len(protoCall.data)))
CommandSent == Len(protoWire) >= ChunkCount(Len(protoCall.data))

\* C12: send_apdu sends the command data in consecutive chunks in order, 255
\* bytes in each but the last, the chaining bit set in CLA of every chunk
\* but the last and nowhere else, with the call's INS, P1 and P2; once the
\* call waits for the response or has returned, the concatenation of the
\* chunks is the original data.
C12_ChainedSend ==
    protoPc # "ready" =>
        /\ \A i \in 1..Len(CommandFrames) :
               /\ CommandFrames[i].data = ChunkOf(protoCall.data, i)
               /\ Len(CommandFrames[i].data) <= 255
               /\ CommandFrames[i].ins = protoCall.ins
               /\ CommandFrames[i].p1 = protoCall.p1
               /\ CommandFrames[i].p2 = protoCall.p2
               /\ IF i < ChunkCount(Len(protoCall.data))
                  THEN /\ CommandFrames[i].cla = protoCall.cla + 16
                       /\ Len(CommandFrames[i].data) = 255
                  ELSE CommandFrames[i].cla = protoCall.cla
        /\ protoPc = "chaining" => ~CommandSent
        /\ (protoPc = "receiving" \/ (protoPc = "done" /\ protoOut.raised = ""))
               => /\ CommandSent
                  /\ ConcatData(CommandFrames) = protoCall.data

\* A 300-byte command went out as a chained chunk of 255 bytes and a final
\* chunk of 45, and the call returned.
C12_Witness ==
    /\ protoPc = "done"
    /\ protoOut.raised = ""
    /\ Len(protoCall.data) = 300
    /\ Len(protoWire) >= 2
    /\ Len(protoWire[1].data) = 255
    /\ protoWire[1].cla = protoCall.cla + 16
    /\ Len(protoWire[2].data) = 45
    /\ protoWire[2].cla = protoCall.cla

\* What was received in answer to the final chunk and to the GET-RESPONSE
\* commands, and the GET-RESPONSE frames sent.
Answers ==
    SubSeq(protoRecv, ChunkCount(Len(protoCall.data)), Len(protoRecv))
GetResponses ==
    SubSeq(protoWire, ChunkCount(Len(protoCall.data)) + 1, Len(protoWire))
HasMoreData(sw) == sw >= \H6100 /\ sw <= \H61FF

\* C13: every answer 0x61LL to the final chunk or to a GET-RESPONSE is
\* followed by one GET-RESPONSE with the protocol's instruction (0xA5 for an
\* OATH session) asking for LL bytes, and nothing else is; the call ends at
\* the first answer that is not 0x61xx: on 0x9000 it returns the payloads of
\* all answers in order, on any other status word it raises the status-word
\* error carrying that word.
C13_ContinuationReceive ==
    CommandSent =>
        /\ \A i \in 1..Len(GetResponses) :
               /\ i <= Len(Answers)
               /\ HasMoreData(Answers[i].sw)
               /\ GetResponses[i] = Frame(0, _ins_send_remaining, 0, 0, <<>>,
                                          Answers[i].sw % 256)
        /\ protoPc = "receiving" => Len(Answers) = Len(GetResponses)
        /\ protoPc = "done" =>
               /\ Len(Answers) = Len(GetResponses) + 1
               /\ LET last == Answers[Len(Answers)]
                  IN  /\ ~HasMoreData(last.sw)
                      /\ IF last.sw = \H9000
                         THEN protoOut = ProtoOut("", \H9000, ConcatData(Answers))
                         ELSE protoOut = ProtoOut("ApduError", last.sw, <<>>)

\* An OATH command answered 0x610A with no payload and then a 10-byte payload
\* with 0x9000 returned the 10 bytes, after one GET-RESPONSE 0xA5.
C13_Witness ==
    /\ protoPc = "done"
    /\ _ins_send_remaining = INS_SEND_REMAINING
    /\ protoRecv = <<[data |-> <<>>, sw |-> \H610A],
                     [data |-> Payload(10, 3), sw |-> \H9000]>>
    /\ Len(protoWire) = 2
    /\ protoWire[2].ins = \HA5
    /\ protoWire[2].le = 10
    /\ protoOut = ProtoOut("", \H9000, Payload(10, 3))

\* A call raised on a status word that is neither 0x9000 nor 0x61xx.
ProtoRaised ==
    /\ protoPc = "done"
    /\ protoOut.raised = "ApduError"
    /\ protoOut.sw = \H6982
    /\ Len(Answers) = 2

\* The configuration a write_device_config call works on, the bytes it
\* handed to the backend and the entries of those bytes after the length.
WrittenConfig ==
    IF mgmtCall.args.config # None THEN mgmtCall.args.config[1]
    ELSE DeviceConfig(None, None, None, None, None)
WrittenBytes == mgmtBackend[1].arg
WrittenItems == parse_list(Tail(WrittenBytes))
Entry(tag) == Get(WrittenItems.list, tag, <<>>)
EntryIff(tag, cond) == Has(WrittenItems.list, tag) <=> cond
\* The entry of an Optional[int] field: present exactly when the field is
\* not None, and then the field's value.
IntEntry(tag, field) ==
    /\ EntryIff(tag, field # None)
    /\ field # None => bytes2int(Entry(tag)) = field[1]
\* The entry of a lock code: present exactly when the code is not empty.
CodeEntry(tag, code) ==
    /\ EntryIff(tag, code # None /\ code # Some(<<>>))
    /\ Has(WrittenItems.list, tag) => Entry(tag) = code[1]
\* The size of the body get_bytes builds: tag, length and value of each entry.
EntrySize(n) == IF n < 128 THEN 2 + n ELSE IF n < 256 THEN 3 + n ELSE 4 + n
IntSize(field, min_len) ==
    IF field = None THEN 0
    ELSE IF field[1] > 255 \/ min_len = 2 THEN EntrySize(2) ELSE EntrySize(1)
CodeSize(code) ==
    IF code = None \/ code = Some(<<>>) THEN 0 ELSE EntrySize(Len(code[1]))
BodySize ==
    (IF mgmtCall.args.reboot THEN 2 ELSE 0)
        + CodeSize(mgmtCall.args.cur_lock_code)
        + IntSize(WrittenConfig.usb_enabled, 2)
        + IntSize(WrittenConfig.nfc_enabled, 2)
        + IntSize(WrittenConfig.auto_eject_timeout, 2)
        + IntSize(WrittenConfig.challenge_response_timeout, 1)
        + IntSize(WrittenConfig.device_flags, 1)
        + CodeSize(mgmtCall.args.new_lock_code)

\* C14: on firmware 5.0.0 or later write_device_config hands the backend
\* bytes whose first byte is the length of the rest and whose entries are,
\* once each: the reboot marker exactly when reboot is requested, the unlock
\* and new-lock-code entries exactly when a non-empty code is given, and the
\* USB-enabled, NFC-enabled, auto-eject timeout, challenge-response timeout
\* and device flags entries exactly for the fields that are not None (the
\* value 0 included), each with the field's value; a body longer than 255
\* bytes is rejected with NotSupportedError and nothing is written.
C14_SparseUpdate ==
    (mgmtCall.op = "write_device_config" /\ TupleGe(mgmtVersion, <<5, 0, 0>>))
        => IF BodySize > 255
           THEN mgmtBackend = <<>> /\ mgmtCall.raised = "NotSupportedError"
           ELSE /\ Len(mgmtBackend) = 1
                /\ WrittenBytes[1] = Len(WrittenBytes) - 1
                /\ Len(WrittenBytes) = BodySize + 1
                /\ WrittenItems.raised = ""
                /\ \A i, j \in 1..Len(WrittenItems.list) :
                       TlvTagOf(WrittenItems.list[i])
                           = TlvTagOf(WrittenItems.list[j]) => i = j
                /\ \A i \in 1..Len(WrittenItems.list) :
                       \E tag \in {TAG.REBOOT, TAG.UNLOCK, TAG.USB_ENABLED,
                                   TAG.NFC_ENABLED, TAG.AUTO_EJECT_TIMEOUT,
                                   TAG.CHALRESP_TIMEOUT, TAG.DEVICE_FLAGS,
                                   TAG.CONFIG_LOCK} :
                           TlvTagOf(WrittenItems.list[i]) = <<tag>>
                /\ EntryIff(TAG.REBOOT, mgmtCall.args.reboot)
                /\ CodeEntry(TAG.UNLOCK, mgmtCall.args.cur_lock_code)
                /\ CodeEntry(TAG.CONFIG_LOCK, mgmtCall.args.new_lock_code)
                /\ IntEntry(TAG.USB_ENABLED, WrittenConfig.usb_enabled)
                /\ IntEntry(TAG.NFC_ENABLED, WrittenConfig.nfc_enabled)
                /\ IntEntry(TAG.AUTO_EJECT_TIMEOUT,
                            WrittenConfig.auto_eject_timeout)
                /\ IntEntry(TAG.CHALRESP_TIMEOUT,
                            WrittenConfig.challenge_response_timeout)
                /\ IntEntry(TAG.DEVICE_FLAGS, WrittenConfig.device_flags)

\* A write with the USB mask 0 and an empty unlock code: the mask is written,
\* the code and the fields that are None are not.
C14_Witness ==
    /\ mgmtCall.op = "write_device_config"
    /\ TupleGe(mgmtVersion, <<5, 0, 0>>)
    /\ Len(mgmtBackend) = 1
    /\ WrittenConfig.usb_enabled = Some(0)
    /\ WrittenConfig.device_flags = None
    /\ mgmtCall.args.cur_lock_code = Some(<<>>)
    /\ Has(WrittenItems.list, TAG.USB_ENABLED)
    /\ Entry(TAG.USB_ENABLED) = <<0, 0>>
    /\ ~Has(WrittenItems.list, TAG.UNLOCK)
    /\ ~Has(WrittenItems.list, TAG.DEVICE_FLAGS)

\* A write whose body is too large was rejected before the backend was called.
ConfigTooLarge ==
    /\ mgmtCall.op = "write_device_config"
    /\ TupleGe(mgmtVersion, <<5, 0, 0>>)
    /\ BodySize > 255
    /\ mgmtCall.raised = "NotSupportedError"

\* The USB-enabled mask of each mode code, written out.
ModeMask ==
    <<\H01, \H38, \H39, \H202, \H203, \H23A, \H23B>>
\* The one config write of a set_mode call: the translated configuration and
\* nothing else.
ModeConfigWritten ==
    /\ Len(mgmtBackend) = 1
    /\ mgmtBackend[1].op = "write_config"
    /\ WrittenBytes[1] = Len(WrittenBytes) - 1
    /\ WrittenItems.raised = ""
    /\ Len(WrittenItems.list) = 3
    /\ Has(WrittenItems.list, TAG.USB_ENABLED)
    /\ bytes2int(Entry(TAG.USB_ENABLED)) = ModeMask[mgmtCall.args.mode.code + 1]
    /\ Has(WrittenItems.list, TAG.AUTO_EJECT_TIMEOUT)
    /\ bytes2int(Entry(TAG.AUTO_EJECT_TIMEOUT)) = mgmtCall.args.auto_eject_timeout
    /\ Has(WrittenItems.list, TAG.CHALRESP_TIMEOUT)
    /\ bytes2int(Entry(TAG.CHALRESP_TIMEOUT)) = mgmtCall.args.chalresp_timeout
\* The one set_mode call of the backend with the four bytes.
ModeBytesSet ==
    /\ Len(mgmtBackend) = 1
    /\ mgmtBackend[1].op = "set_mode"
    /\ Len(mgmtBackend[1].arg) = 4
    /\ mgmtBackend[1].arg[1] = mgmtCall.args.mode.code
    /\ mgmtBackend[1].arg[2] = mgmtCall.args.chalresp_timeout
    /\ 256 * mgmtBackend[1].arg[3] + mgmtBackend[1].arg[4]
           = mgmtCall.args.auto_eject_timeout
TimeoutsFit ==
    /\ mgmtCall.args.chalresp_timeout \in 0..255
    /\ mgmtCall.args.auto_eject_timeout \in 0..65535

ModeSetLegacy ==
    /\ mgmtCall.op = "set_mode"
    /\ TupleLt(mgmtVersion, <<5, 0, 0>>)
    /\ mgmtCall.raised = ""
    /\ mgmtBackend = <<BackendCall("set_mode", <<6, 15, 1, 44>>)>>

\* The remaining attempts the i-th answer of the reset call reports, or None.
\* GET METADATA reports them in its payload, the other commands in the
\* status word of a refusal.
Reported(i) ==
    IF resetSent[i] = GetPinMetadata
    THEN IF resetRecv[i].sw = SW.OK
            /\ get_pin_metadata(resetRecv[i].data).raised = ""
         THEN Some(get_pin_metadata(resetRecv[i].data).attempts_remaining)
         ELSE None
    ELSE _retries_from_sw(version, resetRecv[i].sw)
IsPinCommand(c) == c \in {VerifyEmpty, GetPinMetadata, VerifyBlank}
ResetCommandSent ==
    \E k \in 1..Len(resetSent) : resetSent[k] = ResetCommand

\* C16: the RESET command is sent only after the device has reported 0
\* remaining attempts for the PIN and, after that, 0 remaining attempts for
\* the PUK (in answer to RESET RETRY); and when reset returns the cached
\* retry state is 3/3.
C16_ResetAfterBlocking ==
    /\ \A k \in 1..Len(resetSent) :
           resetSent[k] = ResetCommand =>
               \E i, j \in 1..(k - 1) :
                   /\ i < j
                   /\ IsPinCommand(resetSent[i])
                   /\ Reported(i) = Some(0)
                   /\ resetSent[j] = ResetRetryBlank
                   /\ Reported(j) = Some(0)
    /\ (pivCall.op = "reset" /\ resetPc = "done" /\ resetRaised = "")
           => _current_pin_retries = 3 /\ _max_pin_retries = 3

\* The part of C16 about the cache: a reset that returns leaves 3/3.
ResetRestoresCache ==
    (pivCall.op = "reset" /\ resetPc = "done" /\ resetRaised = "")
        => _current_pin_retries = 3 /\ _max_pin_retries = 3

\* A reset returned on a session whose cache was not 3 when RESET went out.
ResetReturned ==
    /\ pivCall.op = "reset"
    /\ pivCall.before # 3
    /\ resetPc = "done"
    /\ resetRaised = ""
    /\ ResetCommandSent
    /\ _current_pin_retries = 3

\* ---- C17 ----
\* The parts of the id get_id returned, told from the credential: the period
\* prefix, the issuer prefix and the name, as bytes.
IdReturned == credId # None
PeriodPart ==
    IF credData.oath_type = OATH_TYPE.TOTP /\ credData.period # 30
    THEN encode(str(credData.period)) \o <<47>>
    ELSE <<>>
IssuerPresent == credData.issuer # None /\ credData.issuer[1] # <<>>
IssuerPart ==
    IF IssuerPresent THEN encode(credData.issuer[1]) \o <<58>> ELSE <<>>
\* b"Example:user" and b"60/Example:user"
BytesExampleUser == <<69, 120, 97, 109, 112, 108, 101, 58, 117, 115, 101, 114>>
IsExampleUser(period) ==
    /\ credData.issuer = Some(TextExample)
    /\ credData.name = TextUser
    /\ credData.oath_type = OATH_TYPE.TOTP
    /\ credData.period = period

\* C17: the id get_id returns is the period prefix "<period>/" (only for a
\* TOTP credential whose period is not 30), then the issuer prefix
\* "<issuer>:" (only when an issuer is present), then the name, as bytes:
\* (Example, user, TOTP, 30) gives b"Example:user", the same with period 60
\* gives b"60/Example:user", an HOTP credential gets no period prefix, and
\* the secret, the digits, the counter and the hash algorithm play no part.
C17_CredentialId ==
    IdReturned =>
        /\ credId[1] = PeriodPart \o IssuerPart \o encode(credData.name)
        /\ IsExampleUser(30) => credId[1] = BytesExampleUser
        /\ IsExampleUser(60) => credId[1] = <<54, 48, 47>> \o BytesExampleUser
        /\ credData.oath_type = OATH_TYPE.HOTP =>
               credId[1] = IssuerPart \o encode(credData.name)
C17_Witness ==
    /\ IdReturned
    /\ IsExampleUser(60)
    /\ credId[1] = <<54, 48, 47>> \o BytesExampleUser
\* An HOTP credential with a period other than 30 got its id.
HotpIdReturned ==
    /\ IdReturned
    /\ credData.oath_type = OATH_TYPE.HOTP
    /\ credData.period = 60
    /\ credData.issuer = None
    /\ credId[1] = encode(credData.name)

\* ---- C18 ----
\* calculate_code returned a Code; the truncated response it was made from,
\* the digit count of that response and the 31-bit value of its four bytes.
CodeReturned == calcPc = "done" /\ calcRaised = "" /\ calcCode # None
LastTruncated == unwrap(TAG_TRUNCATED, calcRecv[Len(calcRecv)]).val
DigitCount == LastTruncated[1]
Masked31 ==
    (LastTruncated[2] % 128) * 16777216 + LastTruncated[3] * 65536
        + LastTruncated[4] * 256 + LastTruncated[5]
Zeros(n) == [i \in 1..n |-> "0"]
Text001000 == <<"0", "0", "1", "0", "0", "0">>

\* C18: the code text is the decimal text of the 31-bit value of the four
\* bytes that follow the digit count, with "0" put in front of it up to the
\* digit count (digit count 6 and value 1000 give "001000"); a text already
\* that long gets nothing put in front.
C18_CodeFormat ==
    CodeReturned =>
        LET text == str(Masked31)
            pad == IF DigitCount > Len(text) THEN DigitCount - Len(text) ELSE 0
        IN  /\ calcCode[1].value = Zeros(pad) \o text
            /\ (DigitCount = 6 /\ Masked31 = 1000) =>
                   calcCode[1].value = Text001000
C18_Witness ==
    /\ CodeReturned
    /\ LastTruncated = <<6, 128, 0, 3, 232>>
    /\ calcCode[1].value = Text001000
\* A code longer than the digit count of its response was returned.
CodeLongerThanDigits ==
    /\ CodeReturned
    /\ Len(calcCode[1].value) > DigitCount

\* ---- C19 ----
\* The caller supplied the timestamp of a calculate_code call that got past
\* the device check, for a credential of a positive period or an HOTP one.
IsTotp == calcCredential.oath_type = OATH_TYPE.TOTP
TimestampSupplied ==
    /\ calcPc # "idle"
    /\ calcArg # None
    /\ calcCredential.device_id = DeviceId
    /\ IsTotp => calcCredential.period[1] > 0
\* The 8-byte big-endian counter of a time step below 2^31
Counter8(step) ==
    <<0, 0, 0, 0, step \div 16777216, (step \div 65536) % 256,
      (step \div 256) % 256, step % 256>>
\* What the claim says of a call with the timestamp t
WindowOf(t) ==
    IF IsTotp
    THEN LET p == calcCredential.period[1]
             floor == (t \div p) * p
         IN  /\ calcSent = <<CalculateCommand(calcCredential, Counter8(t \div p))>>
             /\ CodeReturned =>
                    /\ calcCode[1].valid_from = floor
                    /\ calcCode[1].valid_to = Some(floor + p)
                    /\ floor <= t
                    /\ t < floor + p
    ELSE /\ calcSent = <<CalculateCommand(calcCredential, <<>>)>>
         /\ CodeReturned =>
                /\ calcCode[1].valid_from = t
                /\ calcCode[1].valid_to = None

\* C19: for every timestamp t >= 0 the caller supplies, a TOTP credential
\* of period p is sent the challenge floor(t/p) as an 8-byte big-endian
\* counter and the Code returned is valid from floor(t/p)*p to that plus p,
\* a window that holds t; an HOTP credential is sent the empty challenge
\* and its Code is valid from t without end.
C19_TimestampWindow == TimestampSupplied => WindowOf(calcArg[1])
\* The same for the timestamps other than 0, and the timestamp 0 treated as
\* no timestamp.
WindowOfPositive == (TimestampSupplied /\ calcArg[1] # 0) => WindowOf(calcArg[1])
ZeroReplacedByClock ==
    (TimestampSupplied /\ calcArg[1] = 0) =>
        /\ calcTimestamp \in Clock
        /\ WindowOf(calcTimestamp)
ZeroTimestampCode ==
    /\ TimestampSupplied
    /\ calcArg = Some(0)
    /\ CodeReturned
    /\ calcCode[1].valid_from > 0

\* ---- C20 ----
\* authenticate was called with a key that is not 24 bytes long; the same
\* for set_management_key.
AuthKeyNot24 == authPc # "ready" /\ Len(authKey) # 24
SetKeyNot24 ==
    /\ mgmKeyCall.op = "set_management_key"
    /\ Len(mgmKeyCall.management_key) # 24

\* C20: set_management_key and authenticate accept only keys of 24 bytes,
\* and a call with a key of another length ends with an error before it
\* sends any APDU.
C20_KeyLength ==
    /\ SetKeyNot24 =>
           mgmKeyCall.sent = <<>> /\ mgmKeyCall.raised = "ValueError"
    /\ AuthKeyNot24 =>
           authSent = <<>> /\ authPc = "done" /\ authRaised # ""
\* The half of it that is about set_management_key, which also sends its
\* command for every key of 24 bytes.
SetKeyChecksLength ==
    mgmKeyCall.op = "set_management_key" =>
        IF Len(mgmKeyCall.management_key) = 24
        THEN mgmKeyCall.sent = <<SetMgmKeyCommand(mgmKeyCall.management_key)>>
        ELSE mgmKeyCall.sent = <<>> /\ mgmKeyCall.raised = "ValueError"
\* authenticate returned normally with a key of 16 bytes.
ShortKeyAuthenticated ==
    /\ authPc = "done"
    /\ authRaised = ""
    /\ Len(authKey) = 16
    /\ Len(authSent) = 2
\* authenticate rejected a key of 5 bytes after the witness request went out.
BadKeyRejectedLate ==
    /\ authPc = "done"
    /\ authRaised = "ValueError"
    /\ Len(authKey) = 5
    /\ authSent = <<WitnessRequest>>
    /\ Len(authRecv) = 1

\* ---- C21 ----
\* A PIN/PUK call was made; whether each value it was given fits 8 bytes;
\* the values as they must go out: each followed by 0xFF bytes up to 8.
PinCallMade == pivCall.op \in {"verify_pin", "change_pin", "change_puk", "unblock_pin"}
PinValuesFit == \A i \in 1..Len(pinArgs) : Len(pinArgs[i]) <= 8
Padded8(value) == value \o [i \in 1..(8 - Len(value)) |-> 255]
RECURSIVE PaddedAll(_)
PaddedAll(vals) ==
    IF Len(vals) = 0 THEN <<>> ELSE Padded8(vals[1]) \o PaddedAll(Tail(vals))

\* C21: every PIN or PUK verify_pin, change_pin, change_puk and unblock_pin
\* send is exactly 8 bytes, a shorter value being padded at its end with
\* 0xFF; a value longer than 8 encoded bytes makes the call raise ValueError
\* before any APDU is sent and with the cached PIN retries unchanged.
C21_PinLength ==
    PinCallMade =>
        IF PinValuesFit
        THEN /\ Len(pivCall.sent) = 1
             /\ pivCall.sent[1].data = PaddedAll(pinArgs)
             /\ Len(pivCall.sent[1].data) = 8 * Len(pinArgs)
        ELSE /\ pivCall.raised = "ValueError"
             /\ pivCall.sent = <<>>
             /\ _current_pin_retries = pivCall.before
C21_Witness ==
    /\ pivCall.op = "change_puk"
    /\ pinArgs = <<<<49, 50, 51, 52, 53, 54>>, <<>>>>
    /\ Len(pivCall.sent) = 1
    /\ pivCall.sent[1].data
           = <<49, 50, 51, 52, 53, 54, 255, 255, 255, 255, 255, 255, 255, 255, 255, 255>>
\* A call was refused for a value of 9 bytes.
LongPinRefused ==
    /\ pivCall.op = "verify_pin"
    /\ Len(pinArgs[1]) = 9
    /\ pivCall.raised = "ValueError"
    /\ pivCall.sent = <<>>
    /\ _current_pin_retries = pivCall.before

\* ---- C22 ----
\* put_credential was called on a CredentialData whose digits or period is
\* zero or negative.
PutCalled == putCall.op = "put_credential"
NotPositive == putData[1].digits <= 0 \/ putData[1].period <= 0

\* C22: a CredentialData whose digits or period is not positive, built by
\* the caller or by parse_uri, is rejected with an error before
\* put_credential sends anything to the device.
C22_ValidatedBeforeUse ==
    (PutCalled /\ NotPositive) =>
        /\ putCall.sent = <<>>
        /\ putCall.raised # ""
\* parse_uri returned a CredentialData of period 0, and put_credential sent
\* it and returned its Credential.
UriZeroPeriodPut ==
    /\ PutCalled
    /\ putData[1].secret = <<102, 111, 111>>
    /\ putData[1].period = 0
    /\ Len(putCall.sent) = 1
    /\ putCall.raised = ""
    /\ putCall.credential.period = Some(0)
\* The same for digits 0 and for a negative period; negative digits do not
\* fit the byte they are packed in.
ZeroDigitsPut ==
    /\ PutCalled
    /\ putData[1].digits = 0
    /\ Len(putCall.sent) = 1
NegativePeriodPut ==
    /\ PutCalled
    /\ putData[1].period = -5
    /\ putData[1].oath_type = OATH_TYPE.TOTP
    /\ Len(putCall.sent) = 1
DigitsPacked ==
    (PutCalled /\ putData[1].digits \notin 0..255) =>
        putCall.sent = <<>> /\ putCall.raised = "struct.error"

\* ---- C23 ----
\* put_credential sent its command; the secret in it (the value of the key
\* TLV after the type/algorithm byte and the digits byte); the secret the
\* caller supplied after shortening.
PutSent == PutCalled /\ Len(putCall.sent) = 1
SentSecret ==
    LET name_tlv == parse_from(putCall.sent[1].data)
        key_tlv == parse_from(name_tlv.rest)
    IN  Tail(Tail(TlvValueOf(key_tlv.tlv)))
SuppliedSecret == putData[1].secret
BlockSizeOf(algo) == IF algo = 3 THEN 128 ELSE 64
Shortened ==
    IF Len(SuppliedSecret) > BlockSizeOf(putData[1].hash_algorithm)
    THEN Digest(putData[1].hash_algorithm, SuppliedSecret)
    ELSE SuppliedSecret
ZeroBytes(n) == [i \in 1..n |-> 0]
Missing14 == IF Len(Shortened) < 14 THEN 14 - Len(Shortened) ELSE 0

\* C23 as stated: the secret sent is the shortened secret with zero bytes
\* put in front of it up to 14 bytes, and the shortened secret itself when
\* that has 14 bytes or more.
C23_SecretLeftPadded ==
    PutSent => SentSecret = ZeroBytes(Missing14) \o Shortened
\* C23: the secret sent is the digest of the supplied secret when that is
\* longer than the block size of the credential's hash algorithm and the
\* supplied secret otherwise, followed by zero bytes up to 14 bytes; a
\* secret of 14 bytes or more after shortening is sent unchanged.
C23_SecretSent ==
    PutSent =>
        /\ SentSecret = Shortened \o ZeroBytes(Missing14)
        /\ Len(Shortened) >= 14 => SentSecret = Shortened
        /\ Len(SentSecret) >= 14
C23_Witness ==
    /\ PutSent
    /\ Len(SuppliedSecret) = 5
    /\ SentSecret = SuppliedSecret \o ZeroBytes(9)
\* A secret longer than the block size went out as its digest; one of just
\* the block size went out as it is.
DigestSent ==
    /\ PutSent
    /\ Len(SuppliedSecret) = 65
    /\ putData[1].hash_algorithm = 1
    /\ SentSecret = Digest(1, SuppliedSecret)
    /\ Len(SentSecret) = 20
BlockSizeSecretSent ==
    /\ PutSent
    /\ Len(SuppliedSecret) = 128
    /\ putData[1].hash_algorithm = 3
    /\ SentSecret = SuppliedSecret

\* ---- C30 ----
\* rename_credential was called; it returned; the period prefix of the old
\* id, and the id made of that prefix, the caller's issuer and the caller's
\* name.
RenameCalled == renameCall.op = "rename_credential"
RenameReturned == RenameCalled /\ renameCall.raised = ""
OldPeriodPrefix ==
    LET text == decode(renameCall.credential_id).val
        n == LeadingDigits(text)
    IN  IF n > 0 /\ Len(text) > n + 1 /\ text[n + 1] = "/"
           /\ int(SubSeq(text, 1, n)) # 30
        THEN encode(str(int(SubSeq(text, 1, n)))) \o <<47>>
        ELSE <<>>
CallerId ==
    OldPeriodPrefix
        \o (IF renameCall.issuer # None /\ renameCall.issuer[1] # <<>>
            THEN encode(renameCall.issuer[1]) \o <<58>> ELSE <<>>)
        \o encode(renameCall.name)
OldSupport == TupleLt(renameVersion, <<5, 3, 1>>)

\* C30: rename_credential sends to the device, and returns, a new id made
\* of the caller's new issuer and new name behind the period prefix of the
\* old id; on firmware below 5.3.1 it raises NotSupportedError and sends
\* nothing.
C30_RenameUsesNewName ==
    /\ (RenameCalled /\ OldSupport) =>
           renameCall.raised = "NotSupportedError" /\ renameCall.sent = <<>>
    /\ (RenameCalled /\ Len(renameCall.sent) = 1) =>
           renameCall.sent[1].data
               = Tlv(TAG_NAME, renameCall.credential_id).bytes
                     \o Tlv(TAG_NAME, CallerId).bytes
    /\ RenameReturned => renameCall.new_id = CallerId
\* What the call does: the id sent and returned is the one the parts of the
\* old id give, whatever the caller's name and issuer; the version gate
\* holds.
RenameKeepsOldId ==
    /\ (RenameCalled /\ OldSupport) =>
           renameCall.raised = "NotSupportedError" /\ renameCall.sent = <<>>
    /\ RenameReturned =>
           /\ renameCall.new_id = renameCall.credential_id
           /\ renameCall.sent[1].data
                  = Tlv(TAG_NAME, renameCall.credential_id).bytes
                        \o Tlv(TAG_NAME, renameCall.credential_id).bytes
RenamedToOldName ==
    /\ RenameReturned
    /\ renameCall.credential_id = encode(<<"6", "0", "/", "i", ":", "b">>)
    /\ renameCall.name = TextUser
    /\ renameCall.issuer = Some(TextExample)
    /\ renameCall.new_id = renameCall.credential_id

\* ---- C24 ----
\* A read of the device info ended with an exception.
InfoRead == infoCall.op \in {"parse", "read_config"}
InfoRaised == InfoRead /\ infoCall.raised # ""

\* C24: every malformed device-info response surfaces as BadResponseError:
\* a length prefix that is not the number of bytes that follow, a body that
\* is not TLV, a required field that is missing, and over OTP a checksum
\* that fails; no exception of another type leaves a read.
C24_MalformedIsBadResponse == InfoRaised => infoCall.raised = "BadResponseError"
\* The two checks the code makes itself: the length prefix of a response
\* that is not empty, and the checksum over OTP.
EncodedOf == IF infoCall.op = "parse" THEN infoCall.response ELSE read_config(infoCall.response).val
LengthChecked ==
    (InfoRead /\ Len(EncodedOf) > 0 /\ EncodedOf[1] # Len(EncodedOf) - 1) =>
        infoCall.raised = "BadResponseError"
ChecksumChecked ==
    (infoCall.op = "read_config" /\ Len(infoCall.response) > 0
     /\ ~check_crc(SliceTo(infoCall.response, infoCall.response[1] + 3))) =>
        infoCall.raised = "BadResponseError"
\* The other exceptions of a read: a body that is not TLV, a required field
\* that is missing, an empty response, a version that is not 3 bytes.
BodyNotTlv ==
    /\ infoCall.op = "parse"
    /\ infoCall.response = <<1, 1>>
    /\ infoCall.raised = "ValueError"
FieldMissing ==
    /\ infoCall.op = "parse"
    /\ infoCall.response = <<0>>
    /\ infoCall.raised = "KeyError"
EmptyResponse ==
    /\ InfoRead
    /\ infoCall.response = <<>>
    /\ infoCall.raised = "IndexError"

\* ---- C25 ----
\* A read of the device info returned a DeviceInfo; the fields of the
\* response it was built from, and the version the device has by it.
InfoReturned == InfoRead /\ infoCall.raised = ""
InfoFields == parse_dict(SliceFrom(EncodedOf, 1)).list
InfoVersion ==
    IF Has(InfoFields, TAG.VERSION) THEN Get(InfoFields, TAG.VERSION, <<>>)
    ELSE infoCall.default_version
UsbSupportedField == bytes2int(Get(InfoFields, TAG.USB_SUPPORTED, <<>>))
\* what a DeviceInfo has for a field the response does not have
AbsentFieldsDefault ==
    /\ ~Has(InfoFields, TAG.SERIAL) => infoCall.info.serial = None
    /\ ~Has(InfoFields, TAG.NFC_SUPPORTED) => infoCall.info.supported_nfc = None
    /\ ~Has(InfoFields, TAG.USB_ENABLED) => infoCall.info.config.usb_enabled = None
    /\ ~Has(InfoFields, TAG.CONFIG_LOCK) => ~infoCall.info.is_locked

\* C25: DeviceInfo.parse reports the USB supported mask 0x3F whenever the
\* version, from the response or else the default version, is 4.2.4, whatever
\* the field says; for any other version it reports the USB_SUPPORTED field
\* of the response; the DeviceInfo has that version, and what the response
\* does not have is at its default in it.
C25_UsbSupported ==
    InfoReturned =>
        /\ infoCall.info.version = InfoVersion
        /\ infoCall.info.supported_usb =
               IF InfoVersion = <<4, 2, 4>> THEN Some(\H3F)
               ELSE Some(UsbSupportedField)
        /\ AbsentFieldsDefault
\* 4.2.4 by the response with another mask in the field.
C25_Witness ==
    /\ InfoReturned
    /\ Has(InfoFields, TAG.VERSION)
    /\ InfoVersion = <<4, 2, 4>>
    /\ Has(InfoFields, TAG.USB_SUPPORTED)
    /\ UsbSupportedField # \H3F
    /\ infoCall.info.supported_usb = Some(\H3F)
\* 4.2.4 by the default version with no field in the response, and another
\* version with the field reported as it is.
DefaultVersion424 ==
    /\ InfoReturned
    /\ ~Has(InfoFields, TAG.VERSION)
    /\ ~Has(InfoFields, TAG.USB_SUPPORTED)
    /\ infoCall.info.supported_usb = Some(\H3F)
OtherVersionField ==
    /\ InfoReturned
    /\ InfoVersion # <<4, 2, 4>>
    /\ infoCall.info.supported_usb = Some(UsbSupportedField)
    /\ UsbSupportedField # \H3F

\* ---- C26 ----
\* from_slot was called with a member of SLOT, and before it with another.
SlotMemberCall == slotCall.op = "from_slot" /\ slotCall.slot \in SlotValues
OtherMemberBefore ==
    /\ slotPrev.op = "from_slot"
    /\ slotPrev.slot \in SlotValues
    /\ slotPrev.slot # slotCall.slot
ObjectIds == {OBJECT_ID[n] : n \in DOMAIN OBJECT_ID}

\* C26: from_slot returns an object id for every member of SLOT, and two
\* different slots never have the same object id.
C26_SlotBijection ==
    SlotMemberCall =>
        /\ slotCall.raised = ""
        /\ slotCall.val \in ObjectIds
        /\ (OtherMemberBefore /\ slotPrev.raised = "") =>
               slotPrev.val # slotCall.val
\* The slot of the management key has no object id.
CardManagementRaises ==
    /\ slotCall.op = "from_slot"
    /\ slotCall.slot = SLOT.CARD_MANAGEMENT
    /\ slotCall.raised = "AttributeError"
\* The one member without an object id, the object ids of the others, no
\* two alike, and no object id for what is not a member.
SlotsWithObject ==
    (SlotMemberCall /\ slotCall.slot # SLOT.CARD_MANAGEMENT) =>
        slotCall.raised = "" /\ slotCall.val \in ObjectIds
SlotsInjective ==
    (SlotMemberCall /\ slotCall.raised = "" /\ OtherMemberBefore
     /\ slotPrev.raised = "") => slotPrev.val # slotCall.val
NotASlot ==
    (slotCall.op = "from_slot" /\ slotCall.slot \notin SlotValues) =>
        slotCall.raised = "ValueError"

\* ---- C27 ----
\* Two Credentials were compared.
Compared == orderCall.op = "compare"
SameKey ==
    /\ orderCall.a.device_id = orderCall.b.device_id
    /\ orderCall.a.id = orderCall.b.id
\* The pair a Credential is ordered by, and one text being before another:
\* at the first place where they differ, or by ending there.
OrderPair(c) ==
    <<lower(IF c.issuer \in {None, Some(<<>>)} THEN c.name ELSE c.issuer[1]), lower(c.name)>>
TextBefore(s, t) ==
    \E k \in 1..(Len(t)) :
        /\ k <= Len(s) + 1
        /\ SubSeq(s, 1, k - 1) = SubSeq(t, 1, k - 1)
        /\ (k = Len(s) + 1 \/ Ord(s[k]) < Ord(t[k]))
PairBefore(x, y) ==
    TextBefore(x[1], y[1]) \/ (x[1] = y[1] /\ TextBefore(x[2], y[2]))

\* C27: two Credentials are equal, and have equal hashes, exactly when their
\* device_id and id are equal, whatever their issuer, name, type, period and
\* touch flag; a < b exactly when the pair (lowercased issuer-or-name,
\* lowercased name) of a is lexicographically smaller than that of b.
C27_EqualityAndOrder ==
    Compared =>
        /\ orderCall.eq <=> SameKey
        /\ orderCall.hash_eq <=> SameKey
        /\ orderCall.lt <=>
               PairBefore(OrderPair(orderCall.a), OrderPair(orderCall.b))
\* Equal with every other field different, and "a" before "B", which it is
\* only as lowercased.
C27_Witness ==
    /\ Compared
    /\ orderCall.eq
    /\ orderCall.hash_eq
    /\ orderCall.a.issuer # orderCall.b.issuer
    /\ orderCall.a.name # orderCall.b.name
    /\ orderCall.a.oath_type # orderCall.b.oath_type
    /\ orderCall.a.period # orderCall.b.period
    /\ orderCall.a.touch_required # orderCall.b.touch_required
    /\ orderCall.lt
    /\ orderCall.a.issuer = None
    /\ orderCall.a.name = <<"a">>
    /\ orderCall.b.issuer = Some(<<"B">>)
\* Not equal for one name and issuer on two devices or under two ids, and
\* an empty issuer ordered by the name.
SameNameNotEqual ==
    /\ Compared
    /\ orderCall.a.name = orderCall.b.name
    /\ orderCall.a.issuer = orderCall.b.issuer
    /\ ~orderCall.eq
    /\ ~orderCall.hash_eq
EmptyIssuerByName ==
    /\ Compared
    /\ orderCall.a.issuer = Some(<<>>)
    /\ orderCall.a.name = <<"a">>
    /\ orderCall.b.issuer = Some(<<"a">>)
    /\ orderCall.b.name = <<"A", "b">>
    /\ orderCall.lt

\* ---- C28 ----
\* parse_list, parse_dict was called on the bytes of the parts.
ListParsed == listCall.op = "parse_list"
DictParsed == listCall.op = "parse_dict"
\* The list has the parts, one entry each, in their order.
PartsReturned ==
    /\ listCall.raised = ""
    /\ Len(listCall.list) = Len(listCall.parts)
    /\ \A i \in 1..Len(listCall.parts) :
           listCall.list[i].bytes = listCall.parts[i].bytes
    /\ Join(listCall.list) = Join(listCall.parts)
\* The dict has, for a part, the value of the last part of its tag.
IsLastOfTag(i) ==
    \A j \in (i + 1)..Len(listCall.parts) :
        TlvTagOf(listCall.parts[j]) # TlvTagOf(listCall.parts[i])
LastValues ==
    /\ listCall.raised = ""
    /\ \A i \in 1..Len(listCall.parts) :
           IsLastOfTag(i) =>
               <<TlvTagOf(listCall.parts[i]), TlvValueOf(listCall.parts[i])>>
                   \in listCall.dict
    /\ Cardinality(listCall.dict)
           = Cardinality({TlvTagOf(listCall.parts[i]) :
                              i \in 1..Len(listCall.parts)})

\* C28: parse_list on the concatenation of N encoded TLVs consumes the
\* buffer and returns N entries in the order of the input whose bytes
\* concatenate back to it; parse_dict on an input where a tag occurs more
\* than once maps the tag to the value of its last occurrence.
C28_ListOfConcatenation ==
    /\ ListParsed => PartsReturned
    /\ DictParsed => LastValues
\* A part is exact when its bytes hold as many value bytes as its length
\* octets say.
Exact(t) == _tlv_parse(t.bytes).ln = Len(_tlv_parse(t.bytes).value)
AllExact == \A i \in 1..Len(listCall.parts) : Exact(listCall.parts[i])
ExactPartsReturned ==
    /\ (ListParsed /\ AllExact) => PartsReturned
    /\ (DictParsed /\ AllExact) => LastValues
\* Two parts returned as one entry, the first being short of its length.
TwoPartsOneEntry ==
    /\ ListParsed
    /\ Len(listCall.parts) = 2
    /\ listCall.parts[1] = Tlv(\H0105, <<>>)
    /\ listCall.raised = ""
    /\ Len(listCall.list) = 1
\* A tag three times in the input, with the last value in the dict.
RepeatedTagLast ==
    /\ DictParsed
    /\ Len(listCall.parts) = 3
    /\ AllExact
    /\ \A i \in 1..3 : TlvTagOf(listCall.parts[i]) = <<1>>
    /\ TlvValueOf(listCall.parts[1]) # TlvValueOf(listCall.parts[3])
    /\ listCall.dict = {<<<<1>>, TlvValueOf(listCall.parts[3])>>}

\* ---- C29 ----
\* unwrap was called on the data, for the tag on record; what _tlv_parse
\* reads from the data.
Unwrapped == tlvRes.op = "unwrap"
UnwrapParse == _tlv_parse(tlvData)
\* The data is exactly one TLV of the tag asked for: a tag, a length and as
\* many value bytes as the length says, with nothing behind them.
OneTlvOfTag ==
    /\ UnwrapParse.raised = ""
    /\ UnwrapParse.tag = tlvRes.tag
    /\ UnwrapParse.ln = Len(UnwrapParse.value)
    /\ UnwrapParse.rest = <<>>
\* The octet behind a tag of one or two bytes is 0x80.
IndefiniteLength ==
    \/ Len(tlvData) >= 2 /\ tlvData[1] % 32 # 31 /\ tlvData[2] = \H80
    \/ /\ Len(tlvData) >= 3
       /\ tlvData[1] % 32 = 31
       /\ tlvData[2] < \H80
       /\ tlvData[3] = \H80
\* The three refusals: another tag, bytes behind the first TLV, 0x80.
UnwrapRefusals ==
    /\ (UnwrapParse.raised = "" /\ UnwrapParse.tag # tlvRes.tag) =>
           tlvRes.raised = "ValueError"
    /\ (UnwrapParse.raised = "" /\ UnwrapParse.rest # <<>>) =>
           tlvRes.raised = "ValueError"
    /\ IndefiniteLength => tlvRes.raised = "ValueError"

\* C29: unwrap(tag, data) returns the value only when data is exactly one
\* TLV of the expected tag, and then its value bytes; it raises ValueError
\* when the tag differs, when bytes remain after the first TLV and when the
\* length octet is 0x80.
C29_UnwrapExactlyOne ==
    Unwrapped =>
        /\ tlvRes.raised = "" =>
               OneTlvOfTag /\ tlvRes.value = UnwrapParse.value
        /\ UnwrapRefusals
\* The refusals alone, and the value of what is one TLV of the tag.
UnwrapRefuses == Unwrapped => UnwrapRefusals
UnwrapOfOneTlv ==
    (Unwrapped /\ OneTlvOfTag) =>
        tlvRes.raised = "" /\ tlvRes.value = UnwrapParse.value
\* Data one value byte short of its length, unwrapped without an error
\* into the length octet and the value byte.
ShortDataUnwrapped ==
    /\ Unwrapped
    /\ tlvData = <<\H01, \H02, \HAA>>
    /\ tlvRes.raised = ""
    /\ tlvRes.value = <<\H02, \HAA>>
\* Each refusal happens.
WrongTagRefused ==
    /\ Unwrapped
    /\ UnwrapParse.raised = ""
    /\ UnwrapParse.rest = <<>>
    /\ UnwrapParse.ln = Len(UnwrapParse.value)
    /\ UnwrapParse.tag # tlvRes.tag
    /\ tlvRes.raised = "ValueError"
RemainderRefused ==
    /\ Unwrapped
    /\ UnwrapParse.raised = ""
    /\ UnwrapParse.tag = tlvRes.tag
    /\ UnwrapParse.rest # <<>>
    /\ tlvRes.raised = "ValueError"
IndefiniteRefused == Unwrapped /\ IndefiniteLength /\ tlvRes.raised = "ValueError"

\* ---- C31 ----
\* A call that presents the PUK was refused with the PUK's remaining attempts.
PukRefused ==
    /\ pivCall.op \in {"change_puk", "unblock_pin"}
    /\ pivCall.raised = "InvalidPinError"

\* C31: the cached PIN retry estimate tracks PIN attempts only: after
\* change_puk or unblock_pin failed on a wrong PUK, _current_pin_retries has
\* the value it had before the call.
C31_PukFailureKeepsPinRetries ==
    PukRefused => _current_pin_retries = pivCall.before
\* change_puk alone leaves the estimate as it was; unblock_pin puts the
\* PUK's remaining attempts in it.
ChangePukKeepsPinRetries ==
    (pivCall.op = "change_puk" /\ pivCall.raised = "InvalidPinError") =>
        _current_pin_retries = pivCall.before
UnblockTakesPukRetries ==
    /\ pivCall.op = "unblock_pin"
    /\ pivCall.raised = "InvalidPinError"
    /\ _current_pin_retries = pivCall.attempts_remaining[1]
    /\ _current_pin_retries # pivCall.before
ChangePukRefused ==
    /\ pivCall.op = "change_puk"
    /\ pivCall.raised = "InvalidPinError"
    /\ pivCall.attempts_remaining # Some(pivCall.before)

\* ---- C32 ----
\* C32: in every state of a PivSession, after any sequence of PIN/PUK calls,
\* the cached PIN retry estimate lies between 0 and the cached maximum.
C32_RetriesWithinMaximum ==
    0 <= _current_pin_retries /\ _current_pin_retries <= _max_pin_retries
\* The estimate is never negative, and a verify_pin that succeeded or a
\* set_pin_attempts puts it at the maximum.
RetriesNotNegative == _current_pin_retries >= 0 /\ _max_pin_retries >= 0
RetriesAtMaximum ==
    (pivCall.op \in {"verify_pin", "set_pin_attempts"} /\ pivCall.raised = "") =>
        _current_pin_retries = _max_pin_retries
\* A new session on a device set to 5 attempts: the first wrong PIN leaves 4
\* of them, with the maximum of the session at 3.
FourOfThree ==
    /\ pivCall.op = "verify_pin"
    /\ pivCall.before = 3
    /\ pivCall.raised = "InvalidPinError"
    /\ _max_pin_retries = 3
    /\ _current_pin_retries = 4

\* ---- C33 ----
\* set_mode returned; what it does on a NEO and on any other device.
ScReturned == scPc = "returned"
NeoSteps ==
    <<ScSelect("OTP"), ScApdu(Apdu(0, 1, SLOT_DEVICE_CONFIG, 0, scData)),
      ScRaw(DeselectFrame), ScSelect("MGMT")>>
OtherSteps == <<ScApdu(Apdu(0, INS_SET_MODE, P1_DEVICE_CONFIG, 0, scData))>>
ScStepsOf == IF scVersion[1] = 3 THEN NeoSteps ELSE OtherSteps

\* C33: on the smart-card backend with major version 3, set_mode does, in
\* this order, SELECT of the OTP application, the device-config slot
\* command, the raw de-select frame and SELECT of the Management
\* application, and the Management application is the selected one when it
\* returns; on any other major version it sends one SET_MODE APDU and no
\* SELECT.  At every step what was done is the beginning of that order.
C33_SetModeOrder ==
    /\ scPc # "idle" =>
           /\ Len(scOps) <= Len(ScStepsOf)
           /\ scOps = SubSeq(ScStepsOf, 1, Len(scOps))
    /\ ScReturned => scOps = ScStepsOf /\ scSelected = "MGMT"
\* set_mode returned on a NEO, on which another application was selected
\* on the way.
C33_Witness ==
    /\ ScReturned
    /\ scVersion[1] = 3
    /\ Len(scOps) = 4
    /\ scOps[1].aid = "OTP"
    /\ scOps[4].aid = "MGMT"
    /\ scSelected = "MGMT"
\* One APDU on another device, and a set_mode that raised on a NEO after
\* the OTP application was selected leaves that one selected.
OneApduReturned ==
    /\ ScReturned
    /\ scVersion[1] # 3
    /\ Len(scOps) = 1
    /\ scOps[1].apdu[1].ins = INS_SET_MODE
RaisedWithOtpSelected ==
    /\ scPc = "raised"
    /\ scVersion[1] = 3
    /\ scRaised = "ApduError"
    /\ scSelected = "OTP"

\* ---- C34 ----
\* C34: every Code returned has a value of exactly as many digits as the
\* first byte of the truncated response says, whatever the four bytes
\* behind it.
C34_CodeHasDigitCount ==
    CodeReturned => Len(calcCode[1].value) = DigitCount
\* The value is never shorter than the count, and has the count when the
\* 31-bit value is below 10^6 for 6 digits.
CodeNotShorter == CodeReturned => Len(calcCode[1].value) >= DigitCount
SmallValueFits ==
    (CodeReturned /\ DigitCount = 6 /\ Masked31 < 1000000) =>
        Len(calcCode[1].value) = 6
\* Six digits advertised, ten returned.
TenDigitsForSix ==
    /\ CodeReturned
    /\ DigitCount = 6
    /\ Masked31 = 1000000007
    /\ calcCode[1].value = <<"1", "0", "0", "0", "0", "0", "0", "0", "0", "7">>

\* ---- C35 ----
\* sign sent a block to the device for an EC key; the block, as it is in
\* the command, the digest of the message and the byte length of the key.
EcSigned ==
    /\ signCall.op = "sign"
    /\ Len(signCall.sent) = 1
    /\ signCall.key_type \in {KEY_TYPE.ECCP256, KEY_TYPE.ECCP384}
SignBlock ==
    LET inner == unwrap(TAG_DYN_AUTH, signCall.sent[1].data).val
    IN  TlvValueOf(parse_from(parse_from(inner).rest).tlv)
SignDigest == Hashed(signCall.hash_algorithm, signCall.message)
KeyBytes == IF signCall.key_type = KEY_TYPE.ECCP256 THEN 32 ELSE 48

\* C35: for an EC key the block sign passes to the device is exactly
\* bit_len / 8 bytes long: a longer hash is cut to it and a shorter hash has
\* zero bytes put in front of it up to it.
C35_EcBlockLength ==
    EcSigned =>
        /\ Len(SignBlock) = KeyBytes
        /\ SignBlock =
               IF Len(SignDigest) >= KeyBytes
               THEN SubSeq(SignDigest, 1, KeyBytes)
               ELSE [i \in 1..(KeyBytes - Len(SignDigest)) |-> 0] \o SignDigest
\* A hash of the key's length or longer gives a block of the key's length;
\* a shorter one is passed as it is.
LongHashCut ==
    (EcSigned /\ Len(SignDigest) >= KeyBytes) =>
        SignBlock = SubSeq(SignDigest, 1, KeyBytes)
ShortHashAsIs ==
    (EcSigned /\ Len(SignDigest) < KeyBytes) => SignBlock = SignDigest
Sha256ForP384 ==
    /\ EcSigned
    /\ signCall.key_type = KEY_TYPE.ECCP384
    /\ signCall.hash_algorithm = "sha256"
    /\ Len(SignBlock) = 32
HashCutForP256 ==
    /\ EcSigned
    /\ signCall.key_type = KEY_TYPE.ECCP256
    /\ signCall.hash_algorithm = "sha512"
    /\ Len(SignBlock) = 32

\* ---- C36 ----
\* get_id was called on a TOTP credential with a non-empty name, an absent
\* or non-empty issuer and a positive period; what _parse_cred_id makes of
\* the id.
TotpIdMade ==
    /\ credId # None
    /\ credData.oath_type = OATH_TYPE.TOTP
    /\ Len(credData.name) > 0
    /\ credData.issuer # Some(<<>>)
    /\ credData.period > 0
ParsedId == _parse_cred_id(credId[1], OATH_TYPE.TOTP)
ParsedBack ==
    /\ ParsedId.raised = ""
    /\ ParsedId.issuer = credData.issuer
    /\ ParsedId.name = credData.name
    /\ ParsedId.period = Some(credData.period)

\* C36: parsing the id made of (issuer, name, TOTP, period) gives back the
\* same issuer, name and period, for every non-empty name, every absent or
\* non-empty issuer and every positive period.
C36_ParseInvertsFormat == TotpIdMade => ParsedBack
\* It does for a name and an issuer without ":" that do not begin like a
\* period prefix.
PlainIdParsedBack ==
    (TotpIdMade /\ credData.name = TextUser
        /\ credData.issuer \in {None, Some(TextExample)}) => ParsedBack
\* A name beginning with digits and "/" is read as a period, a name with a
\* ":" as an issuer and a name.
NameReadAsPeriod ==
    /\ TotpIdMade
    /\ credData.name = <<"6", "0", "/", "u", "s", "e", "r">>
    /\ credData.issuer = None
    /\ credData.period = DEFAULT_PERIOD
    /\ ParsedId.period = Some(60)
    /\ ParsedId.name = TextUser
NameReadAsIssuer ==
    /\ TotpIdMade
    /\ credData.name = <<"a", ":", "b">>
    /\ credData.issuer = None
    /\ ParsedId.issuer = Some(<<"a">>)
    /\ ParsedId.name = <<"b">>

\* ---- C37 ----
\* A device that counts wrong attempts: it refuses each blank attempt of the two
\* loops, and when the refusal carries a count, the count is below every
\* count it reported for an earlier attempt of the same loop.
Lowers(sw) ==
    LET command == resetSent[Len(resetSent)]
        retries == _retries_from_sw(version, sw)
    IN  command \in {VerifyBlank, ResetRetryBlank} =>
            /\ sw # SW.OK
            /\ retries # None =>
                   \A i \in 1..Len(resetRecv) :
                       (resetSent[i] = command /\ Reported(i) # None)
                           => retries[1] < Reported(i)[1]
LoweringStatusWords ==
    {SW.OK, SW.AUTH_METHOD_BLOCKED, \H63C2, \H63C1, \H63C0,
     SW.SECURITY_CONDITION_NOT_SATISFIED}

\* send_apdu returns: that device answers the command that is out.
LoweringAnswer ==
    \E response \in ResetResponses, sw \in LoweringStatusWords :
        /\ Len(resetSent) > 0
        /\ Lowers(sw)
        /\ ResetAnswer(response, sw)
        /\ UNCHANGED notReset

ResetLiveNext ==
    \/ \E sw \in {SW.OK, \H63C1} :
           /\ resetPc \in {"idle", "done"}
           /\ verify_pin(<<49, 50, 51, 52, 53, 54>>, sw)
           /\ UNCHANGED notPin
    \/ \E sw \in {SW.AUTH_METHOD_BLOCKED} :
           /\ resetPc \in {"idle", "done"}
           /\ unblock_pin(<<>>, <<>>, sw)
           /\ UNCHANGED notPin
    \/ reset_piv /\ UNCHANGED notReset
    \/ LoweringAnswer

\* reset on a session with that device.  send_apdu blocks until the answer
\* is there, so an answer that can come does come.
SpecResetLive ==
    SpecResetInit /\ [][ResetLiveNext]_vars /\ WF_vars(LoweringAnswer)

ResetRunning ==
    resetPc \in {"get_pin_attempts", "block_pin", "block_puk", "reset"}
\* An answer of the call that is an error carrying no count.
NoCount(i) ==
    /\ resetRecv[i].sw # SW.OK
    /\ _retries_from_sw(version, resetRecv[i].sw) = None
ErrorAborts ==
    \A i \in 1..Len(resetRecv) :
        NoCount(i) =>
            /\ i = Len(resetRecv)
            /\ resetPc = "done"
            /\ resetRaised = "ApduError"

\* After an attempt of a loop that the device answered with the count n, the
\* loop makes at most n more attempts.
AttemptsBounded ==
    \A i \in 1..Len(resetRecv) :
        (resetSent[i] \in {VerifyBlank, ResetRetryBlank} /\ Reported(i) # None)
            => Cardinality({j \in (i + 1)..Len(resetSent) :
                               resetSent[j] = resetSent[i]})
                   <= Reported(i)[1]

AbortedInPukLoop ==
    /\ pivCall.op = "reset"
    /\ resetPc = "done"
    /\ resetRaised = "ApduError"
    /\ Len(resetSent) > 0
    /\ resetSent[Len(resetSent)] = ResetRetryBlank
    /\ NoCount(Len(resetRecv))
\* No call of reset with that device sends more than its first command,
\* four attempts in each loop and RESET.
ResetCommandsBounded == Len(resetSent) <= 10

\* ---- C38 ----
RetryRunning == retryPc \in {"connect", "sleep"}
RetryDone == retryPc = "done"
\* connect_to_device is called at most attempts + 1 times.
CallsBounded == Len(retryCalls) <= retryArg + 1
\* Every call before the last raised an exception that the handler caught:
\* nothing is called after a call that returned.
EarlierCallsFailed ==
    \A i \in 1..(Len(retryCalls) - 1) :
        retryCalls[i].raised # "" /\ IsException(retryCalls[i].raised)
\* The call ends as the last call of connect_to_device ended; when it ends
\* with a caught exception, attempts + 1 calls were made.
EndsAsLastCall ==
    RetryDone =>
        /\ Len(retryCalls) > 0
        /\ retryOut = retryCalls[Len(retryCalls)]
        /\ (retryOut.raised # "" /\ IsException(retryOut.raised))
               => Len(retryCalls) = retryArg + 1

\* C38: retrying_connect ends; it calls connect_to_device at most
\* attempts + 1 times, returns what the first call that succeeds returned
\* without calling again, and when every call failed raises the exception of
\* the last call.
C38_RetryingConnectEnds ==
    /\ RetryRunning ~> RetryDone
    /\ []CallsBounded
    /\ []EarlierCallsFailed
    /\ []EndsAsLastCall
\* With the default, the eleventh call failed and its exception was raised
\* although the calls before raised another one.
C38_Witness ==
    /\ RetryDone
    /\ retryArg = DEFAULT_ATTEMPTS
    /\ Len(retryCalls) = 11
    /\ retryCalls[10] = Raised("OSError")
    /\ retryOut = Raised("ValueError")
ThirdCallReturned ==
    /\ RetryDone
    /\ Len(retryCalls) = 3
    /\ retryArg = 3
    /\ retryOut = Returned("device 2")
InterruptNotRetried ==
    /\ RetryDone
    /\ Len(retryCalls) = 1
    /\ retryArg = 3
    /\ retryOut = Raised("KeyboardInterrupt")

\* ---- C39 ----
\* open_connection was called for a connection type the device reference
\* does not support.
UnsupportedAsked ==
    /\ devCall.op = "open_connection"
    /\ ~devCall.supported

\* C39: open_connection on a device reference that does not support the
\* connection type asked for fails with ValueError and opens nothing, for
\* CtapYubiKeyDevice as for the base YubiKeyDevice.
C39_UnsupportedIsValueError ==
    UnsupportedAsked =>
        /\ devCall.raised = "ValueError"
        /\ devCall.connection = None
\* It does for the base class; for CtapYubiKeyDevice the call fails with
\* TypeError.  Nothing is opened in either case.
BaseRaisesValueError ==
    (UnsupportedAsked /\ devCall.device.cls = "YubiKeyDevice")
        => devCall.raised = "ValueError"
CtapRaisesTypeError ==
    (UnsupportedAsked /\ devCall.device.cls = "CtapYubiKeyDevice")
        => devCall.raised = "TypeError"
NothingOpened == UnsupportedAsked => devCall.connection = None
CtapSmartCardAsked ==
    /\ UnsupportedAsked
    /\ devCall.device.cls = "CtapYubiKeyDevice"
    /\ devCall.connection_type = "SmartCardConnection"
    /\ devCall.raised = "TypeError"
CtapOpened ==
    /\ devCall.op = "open_connection"
    /\ devCall.device.cls = "CtapYubiKeyDevice"
    /\ devCall.connection_type = "CtapDevice"
    /\ devCall.raised = ""
    /\ devCall.connection # None

=============================================================================
